---- MODULE Spec2Model ----
(***************************************************************************)
(* A model of the CGP viewer's core: the hook useCgpParser, the text        *)
(* parser parseCGPString, the active-node analysis findActiveNodes and the *)
(* delay analysis calculateNodeDelays / getNodeDelay.                      *)
(*                                                                         *)
(* An input is a JavaScript value; a string is modelled as a sequence of   *)
(* one-character strings.  The hook and the parser work on the characters: *)
(* the regular expressions, String.split, String.trim, Number and parseInt *)
(* are modelled by what they do to the characters.                         *)
(***************************************************************************)
EXTENDS Integers, Sequences, FiniteSets, TLC

VARIABLES
    cgpString,   \* the value handed to useCgpParser: [type, text]
    inputNames,  \* useCgpParser: the array inputNames
    outputNames, \* useCgpParser: the array outputNames
    ret,         \* what useCgpParser returned (<<>> before the return)
    str,         \* the string handed to parseCGPString ("" before the call)
    pc,          \* "start" | "parse" | "seed" | "active" | "delays" | "done"
    result,      \* what parseCGPString returned (<<>> before the call)
    active,      \* findActiveNodes: the set `active`
    toProcess,   \* findActiveNodes: the worklist (a stack, top = last)
    visited,     \* findActiveNodes: the set `visited`
    seedPos,     \* findActiveNodes: outputs already seen by the seeding loop
    delays,      \* calculateNodeDelays: the object `delays` (a function)
    pending,     \* calculateNodeDelays: positions of nodeDefinitions.forEach left
    stack        \* getNodeDelay: the call stack, a sequence of frames

hookVars == <<cgpString, inputNames, outputNames, ret>>

vars == <<cgpString, inputNames, outputNames, ret,
          str, pc, result, active, toProcess, visited, seedPos, delays, pending, stack>>

(***************************************************************************)
(* Characters and strings                                                  *)
(***************************************************************************)

\* A string literal as the sequence of its characters.
Chars(s) == [i \in 1..Len(s) |-> SubSeq(s, i, i)]

DigitChars == Chars("0123456789")

IsDigit(c) == \E d \in 1..10 : DigitChars[d] = c

DigitVal(c) == (CHOOSE d \in 1..10 : DigitChars[d] = c) - 1

AllDigits(tok) == \A i \in 1..Len(tok) : IsDigit(tok[i])

\* parseInt(digits, 10) on a non-empty run of digits.
RECURSIVE ParseInt(_)
ParseInt(tok) ==
    IF tok = <<>> THEN 0
    ELSE 10 * ParseInt(SubSeq(tok, 1, Len(tok) - 1)) + DigitVal(tok[Len(tok)])

\* isNaN(Number(tok)) for a token over the modelled alphabet (digits, sign,
\* punctuation, the letter a): Number accepts the empty string (as 0) and an
\* optionally signed run of digits.
IsNaNToken(tok) ==
    ~ \/ tok = <<>>
      \/ AllDigits(tok)
      \/ /\ Len(tok) > 1
         /\ tok[1] \in {"-", "+"}
         /\ AllDigits(Tail(tok))

\* Number(tok) for a token that is not NaN.
NumberOf(tok) ==
    IF tok = <<>> THEN 0
    ELSE IF tok[1] = "-" THEN 0 - ParseInt(Tail(tok))
    ELSE IF tok[1] = "+" THEN ParseInt(Tail(tok))
    ELSE ParseInt(tok)

\* A whitespace character (of those that occur in the modelled inputs).
IsSpace(c) == c \in {" ", "\n", "\t"}

\* str.replace(/\s+/g, '')
RemoveWhitespace(s) == SelectSeq(s, LAMBDA c : ~ IsSpace(c))

\* The text of a sequence of characters, for messages.
RECURSIVE Text(_)
Text(s) ==
    IF s = <<>> THEN ""
    ELSE IF Len(s) = 1 THEN s[1]
    ELSE LET h == Len(s) \div 2
         IN  Text(SubSeq(s, 1, h)) \o Text(SubSeq(s, h + 1, Len(s)))

\* The least index >= from at which character c occurs in s, or 0.
IndexOfFrom(s, c, from) ==
    IF \E i \in from..Len(s) : s[i] = c
    THEN CHOOSE i \in from..Len(s) : s[i] = c /\ \A j \in from..(i - 1) : s[j] # c
    ELSE 0

\* String.prototype.split(',') : the tokens between the commas.
RECURSIVE Split(_)
Split(s) ==
    LET k == IndexOfFrom(s, ",", 1)
    IN  IF k = 0 THEN <<s>>
        ELSE <<SubSeq(s, 1, k - 1)>> \o Split(SubSeq(s, k + 1, Len(s)))

\* .map(Number) / .some(isNaN) over the tokens of a split.
SomeNaN(tokens) == \E i \in 1..Len(tokens) : IsNaNToken(tokens[i])

Numbers(tokens) == [i \in 1..Len(tokens) |-> NumberOf(tokens[i])]

(***************************************************************************)
(* The three regular expressions of parseCGPString                         *)
(***************************************************************************)

\* configRegex = /\{([^}]+)\}/ : the leftmost "{" followed by at least one
\* character other than "}" and then a "}".  The capture, or <<>> wrapped
\* in a record saying there is no match.
ConfigMatch(s) ==
    LET Starts == {i \in 1..Len(s) :
                      /\ s[i] = "{"
                      /\ i + 1 <= Len(s)
                      /\ s[i + 1] # "}"
                      /\ IndexOfFrom(s, "}", i + 1) # 0}
    IN  IF Starts = {} THEN [matched |-> FALSE]
        ELSE LET i == CHOOSE x \in Starts : \A y \in Starts : x <= y
                 j == IndexOfFrom(s, "}", i + 1)
             IN  [matched |-> TRUE, capture |-> SubSeq(s, i + 1, j - 1)]

\* The end of the run of digits that starts at position p (p - 1 if none).
RECURSIVE DigitRunEnd(_, _)
DigitRunEnd(s, p) ==
    IF p <= Len(s) /\ IsDigit(s[p]) THEN DigitRunEnd(s, p + 1) ELSE p - 1

\* nodeOuterRegex = /\(\[(\d+)\]([^)]+)\)/ tried at position p.
NodeMatchAt(s, p) ==
    IF ~ (p + 1 <= Len(s) /\ s[p] = "(" /\ s[p + 1] = "[")
    THEN [matched |-> FALSE]
    ELSE LET e == DigitRunEnd(s, p + 2)
             c == IndexOfFrom(s, ")", e + 2)
         IN  IF /\ e >= p + 2
                /\ e + 1 <= Len(s)
                /\ s[e + 1] = "]"
                /\ e + 2 <= Len(s)
                /\ s[e + 2] # ")"
                /\ c # 0
             THEN [matched |-> TRUE,
                   index   |-> SubSeq(s, p + 2, e),
                   content |-> SubSeq(s, e + 2, c - 1),
                   last    |-> c]
             ELSE [matched |-> FALSE]

\* nodeOuterRegex.exec(str) with lastIndex = from - 1: the leftmost match at
\* or after position from.
RECURSIVE NodeExec(_, _)
NodeExec(s, from) ==
    IF from > Len(s) THEN [matched |-> FALSE]
    ELSE LET m == NodeMatchAt(s, from)
         IN  IF m.matched THEN m ELSE NodeExec(s, from + 1)

\* \d+(?:,\d+)* : non-empty runs of digits separated by single commas.
IsDigitGroups(s) ==
    /\ s # <<>>
    /\ \A i \in 1..Len(s) : IsDigit(s[i]) \/ s[i] = ","
    /\ s[1] # ","
    /\ s[Len(s)] # ","
    /\ \A i \in 1..(Len(s) - 1) : ~ (s[i] = "," /\ s[i + 1] = ",")

\* outputRegex = /\((\d+(?:,\d+)*)\)$/ : the string ends with a
\* parenthesised list of digit groups.
OutputMatch(s) ==
    LET Opens == {i \in 1..Len(s) : s[i] = "("}
    IN  IF Opens = {} \/ s[Len(s)] # ")" THEN [matched |-> FALSE]
        ELSE LET p == CHOOSE x \in Opens : \A y \in Opens : y <= x
                 body == SubSeq(s, p + 1, Len(s) - 1)
             IN  IF IsDigitGroups(body)
                 THEN [matched |-> TRUE, capture |-> body]
                 ELSE [matched |-> FALSE]

(***************************************************************************)
(* parseCGPString                                                          *)
(***************************************************************************)

Err(e, d) == [error |-> e, detail |-> d]

IsError(r) == "error" \in DOMAIN r

\* The value of a helper that found nothing wrong.
Passed == [passed |-> TRUE]

\* A JavaScript Map in insertion order: a sequence of node definitions.
MapHas(m, k) == \E i \in 1..Len(m) : m[i].index = k

MapGet(m, k) == m[CHOOSE i \in 1..Len(m) : m[i].index = k]

\* A map that keeps an entry only when its key exceeds every key it holds.
MapSet_Ascending(m, k, v) ==
    IF \A i \in 1..Len(m) : m[i].index < k THEN Append(m, v) ELSE m

MapSet(m, k, v) ==
    IF MapHas(m, k)
    THEN [i \in 1..Len(m) |-> IF m[i].index = k THEN v ELSE m[i]]
    ELSE Append(m, v)

MapKeys(m) == {m[i].index : i \in 1..Len(m)}

\* The configuration object built from the seven parameters.
\* A config whose grid starts at index 0 whatever the number of inputs.
MakeConfig_StartAtZero(configParams) ==
    [inputs      |-> configParams[1],
     outputs     |-> configParams[2],
     rows        |-> configParams[3],
     cols        |-> configParams[4],
     arity       |-> configParams[5],
     lback       |-> configParams[6],
     funcSetSize |-> configParams[7],
     startIndex  |-> 0]

MakeConfig(configParams) ==
    [inputs      |-> configParams[1],
     outputs     |-> configParams[2],
     rows        |-> configParams[3],
     cols        |-> configParams[4],
     arity       |-> configParams[5],
     lback       |-> configParams[6],
     funcSetSize |-> configParams[7],
     startIndex  |-> configParams[1]]

\* A count check that only asks for enough parameters.
ConfigParamCountOk_AtLeast(configParams) == Len(configParams) >= 7

ConfigParamCountOk(configParams) == Len(configParams) = 7

\* The lower-bound checks of the configuration, first violation first.
ValidateConfig(config) ==
    IF config.inputs < 0
    THEN Err("Invalid number of inputs.",
             "Value must be >= 0, but found: " \o ToString(config.inputs))
    ELSE IF config.outputs <= 0
    THEN Err("Invalid number of outputs.",
             "Value must be > 0, but found: " \o ToString(config.outputs))
    ELSE IF config.rows <= 0
    THEN Err("Invalid number of rows.",
             "Value must be > 0, but found: " \o ToString(config.rows))
    ELSE IF config.cols <= 0
    THEN Err("Invalid number of columns.",
             "Value must be > 0, but found: " \o ToString(config.cols))
    ELSE IF config.arity < 2
    THEN Err("Invalid arity value.",
             "Arity must be >= 2, but found: " \o ToString(config.arity))
    ELSE IF config.lback <= 0
    THEN Err("Invalid L-back parameter.",
             "L-back must be > 0, but found: " \o ToString(config.lback))
    ELSE IF config.funcSetSize <= 0
    THEN Err("Invalid function set size.",
             "Function set size must be > 0, but found: " \o ToString(config.funcSetSize))
    ELSE Passed

\* A last grid index that is one too large.
MaxNodeIndex_Count(config) == config.startIndex + config.rows * config.cols

MaxNodeIndex(config) == config.startIndex + config.rows * config.cols - 1

\* A range check whose lower limit is one too low.
NodeIndexInRange_LowOffByOne(index, config) ==
    ~ (index < config.startIndex - 1 \/ index > MaxNodeIndex(config))

NodeIndexInRange(index, config) ==
    ~ (index < config.startIndex \/ index > MaxNodeIndex(config))

NodeParamCountOk(contentParts, config) == Len(contentParts) = config.arity + 1

FuncIdInRange(funcId, config) == ~ (funcId < 0 \/ funcId >= config.funcSetSize)

IsPrimaryInput(inputIdx, config) == inputIdx >= 0 /\ inputIdx < config.inputs

\* A connection check that lets a node name itself as an input.
ConnectionValid_AllowSelf(inputIdx, index, config) ==
    ~ (inputIdx < config.startIndex \/ inputIdx > index)

\* A connection check that forgets the upper limit (self and forward
\* references pass).
ConnectionValid_NoUpperLimit(inputIdx, index, config) ==
    ~ (inputIdx < config.startIndex)

ConnectionValid(inputIdx, index, config) ==
    ~ (inputIdx < config.startIndex \/ inputIdx >= index)

\* Math.floor((i - startIndex) / rows); \div rounds down, as Math.floor does.
\* A column taken to be the offset in the grid, as if rows were 1.
NodeColumn_IgnoreRows(i, config) == i - config.startIndex

NodeColumn(i, config) == (i - config.startIndex) \div config.rows

ColumnDistance(inputIdx, index, config) ==
    NodeColumn(index, config) - NodeColumn(inputIdx, config)

\* A lookback check that admits earlier columns only.
LbackOk_PreviousColumns(columnDistance, config) ==
    ~ (columnDistance < 1 \/ columnDistance > config.lback)

\* A lookback check that allows one column too many.
LbackOk_OffByOne(columnDistance, config) == ~ (columnDistance > config.lback + 1)

LbackOk(columnDistance, config) == ~ (columnDistance > config.lback)

\* The loop over a node's inputs with the lookback test made before the
\* connection test.
RECURSIVE ValidateInputs_LbackFirst(_, _, _, _)
ValidateInputs_LbackFirst(inputs, i, index, config) ==
    IF i > Len(inputs) THEN Passed
    ELSE LET inputIdx == inputs[i]
         IN  IF IsPrimaryInput(inputIdx, config)
             THEN ValidateInputs_LbackFirst(inputs, i + 1, index, config)
             ELSE IF ~ LbackOk(ColumnDistance(inputIdx, index, config), config)
             THEN Err("L-back constraint violation in node [" \o ToString(index) \o "].",
                      "Input " \o ToString(i) \o " (node " \o ToString(inputIdx)
                        \o ") is "
                        \o ToString(ColumnDistance(inputIdx, index, config))
                        \o " columns back, but L-back is limited to "
                        \o ToString(config.lback) \o ".")
             ELSE IF ~ ConnectionValid(inputIdx, index, config)
             THEN Err("Invalid connection in node [" \o ToString(index) \o "].",
                      "Input " \o ToString(i) \o " references invalid node "
                        \o ToString(inputIdx)
                        \o ". Nodes can only connect to input nodes (0-"
                        \o ToString(config.inputs - 1) \o ") or previous nodes.")
             ELSE ValidateInputs_LbackFirst(inputs, i + 1, index, config)

\* The loop over a node's inputs, from position i (1-based) on.
RECURSIVE ValidateInputs(_, _, _, _)
ValidateInputs(inputs, i, index, config) ==
    IF i > Len(inputs) THEN Passed
    ELSE LET inputIdx == inputs[i]
         IN  IF IsPrimaryInput(inputIdx, config)
             THEN ValidateInputs(inputs, i + 1, index, config)
             ELSE IF ~ ConnectionValid(inputIdx, index, config)
             THEN Err("Invalid connection in node [" \o ToString(index) \o "].",
                      "Input " \o ToString(i) \o " references invalid node "
                        \o ToString(inputIdx)
                        \o ". Nodes can only connect to input nodes (0-"
                        \o ToString(config.inputs - 1) \o ") or previous nodes.")
             ELSE IF ~ LbackOk(ColumnDistance(inputIdx, index, config), config)
             THEN Err("L-back constraint violation in node [" \o ToString(index) \o "].",
                      "Input " \o ToString(i) \o " (node " \o ToString(inputIdx)
                        \o ") is "
                        \o ToString(ColumnDistance(inputIdx, index, config))
                        \o " columns back, but L-back is limited to "
                        \o ToString(config.lback) \o ".")
             ELSE ValidateInputs(inputs, i + 1, index, config)

\* The body of the while loop for one match: an error, or the node to store.
ParseNode(index, content, nodeDefinitions, config) ==
    LET contentParts == Numbers(Split(content))
        funcId       == contentParts[config.arity + 1]
        inputs       == SubSeq(contentParts, 1, config.arity)
        checked      == ValidateInputs(inputs, 1, index, config)
    IN  IF ~ NodeIndexInRange(index, config)
        THEN Err("Node index " \o ToString(index) \o " out of range.",
                 "Valid range is [" \o ToString(config.startIndex) \o "-"
                   \o ToString(MaxNodeIndex(config)) \o "]. Check your node indices.")
        ELSE IF MapHas(nodeDefinitions, index)
        THEN Err("Duplicate node definition.",
                 "Node index [" \o ToString(index) \o "] is defined multiple times.")
        ELSE IF SomeNaN(Split(content))
        THEN Err("Invalid node [" \o ToString(index) \o "] definition.",
                 "Node contains non-numeric values: \"(" \o Text(content)
                   \o ")\". All values must be integers.")
        ELSE IF ~ NodeParamCountOk(contentParts, config)
        THEN Err("Incorrect number of parameters for node [" \o ToString(index) \o "].",
                 "Expected " \o ToString(config.arity) \o " inputs + 1 function ID ("
                   \o ToString(config.arity + 1) \o " values), but found "
                   \o ToString(Len(contentParts)) \o ".")
        ELSE IF ~ FuncIdInRange(funcId, config)
        THEN Err("Invalid function ID in node [" \o ToString(index) \o "].",
                 "Function ID " \o ToString(funcId) \o " is out of range [0-"
                   \o ToString(config.funcSetSize - 1) \o "].")
        ELSE IF IsError(checked) THEN checked
        ELSE [index |-> index, funcId |-> funcId, inputs |-> inputs]

\* The while loop over nodeOuterRegex.exec: an error, or the node map and the
\* highest index seen (nodeIndex).
RECURSIVE ParseNodes(_, _, _, _, _)
ParseNodes(s, from, nodeDefinitions, nodeIndex, config) ==
    LET nodeMatch == NodeExec(s, from)
    IN  IF ~ nodeMatch.matched
        THEN [nodeDefinitions |-> nodeDefinitions, nodeIndex |-> nodeIndex]
        ELSE LET index == ParseInt(nodeMatch.index)
                 node  == ParseNode(index, nodeMatch.content, nodeDefinitions, config)
             IN  IF IsError(node) THEN node
                 ELSE ParseNodes(s, nodeMatch.last + 1,
                                 MapSet(nodeDefinitions, index, node),
                                 IF index > nodeIndex THEN index ELSE nodeIndex,
                                 config)

\* An output count check that accepts fewer outputs than configured.
OutputCountOk_AtMost(outputNodeIndices, config) ==
    Len(outputNodeIndices) <= config.outputs

OutputCountOk(outputNodeIndices, config) == Len(outputNodeIndices) = config.outputs

\* An output check that does not look the node up in the map.
OutputRefValid_NoLookup(outIdx, config, nodeDefinitions) ==
    LET isValidInput       == outIdx >= 0 /\ outIdx < config.inputs
        isValidDefinedNode == outIdx >= config.startIndex
    IN  isValidInput \/ isValidDefinedNode

OutputRefValid(outIdx, config, nodeDefinitions) ==
    LET isValidInput       == outIdx >= 0 /\ outIdx < config.inputs
        isValidDefinedNode == outIdx >= config.startIndex /\ MapHas(nodeDefinitions, outIdx)
    IN  isValidInput \/ isValidDefinedNode

\* The output section, once the node map is built.
ParseOutputs(s, config, scanned) ==
    LET nodeDefinitions   == scanned.nodeDefinitions
        outputMatch       == OutputMatch(s)
        outputNodeIndices == Numbers(Split(outputMatch.capture))
        Bad == {k \in 1..Len(outputNodeIndices) :
                   ~ OutputRefValid(outputNodeIndices[k], config, nodeDefinitions)}
        first == CHOOSE k \in Bad : \A j \in Bad : k <= j
    IN  IF ~ outputMatch.matched
        THEN Err("Missing output definition.",
                 "CGP string must end with output node references in the format: (node1,node2,...)")
        ELSE IF SomeNaN(Split(outputMatch.capture))
        THEN Err("Invalid output definition.",
                 "Output section contains non-numeric values: \""
                   \o Text(outputMatch.capture) \o "\"")
        ELSE IF ~ OutputCountOk(outputNodeIndices, config)
        THEN Err("Incorrect number of output nodes.",
                 "Configuration specifies " \o ToString(config.outputs)
                   \o " outputs, but " \o ToString(Len(outputNodeIndices))
                   \o " were provided.")
        ELSE IF Bad # {}
        THEN Err("Invalid output node reference: "
                   \o ToString(outputNodeIndices[first]) \o ".",
                 "Output must reference a primary input (0-"
                   \o ToString(config.inputs - 1) \o ") or a defined node ("
                   \o ToString(config.startIndex) \o "-"
                   \o ToString(scanned.nodeIndex) \o ").")
        ELSE [config            |-> config,
              nodeDefinitions   |-> nodeDefinitions,
              outputNodeIndices |-> outputNodeIndices]

\* Everything after the configuration object is built.
ParseBody(s, config) ==
    LET checked == ValidateConfig(config)
        scanned == ParseNodes(s, 1, <<>>, -1, config)
    IN  IF IsError(checked) THEN checked
        ELSE IF IsError(scanned) THEN scanned
        ELSE IF Len(scanned.nodeDefinitions) = 0
        THEN Err("No node definitions found.",
                 "CGP string must include node definitions in the format: ([nodeId]func,in1,in2,...)")
        ELSE ParseOutputs(s, config, scanned)

parseCGPString(input) ==
    LET s           == RemoveWhitespace(Chars(input))
        configMatch == ConfigMatch(s)
        tokens      == Split(configMatch.capture)
        configParams == Numbers(tokens)
    IN  IF Len(s) = 0
        THEN Err("Empty CGP string.",
                 "Please enter a valid CGP string with configuration, nodes and output definitions.")
        ELSE IF ~ configMatch.matched
        THEN Err("Missing configuration block.",
                 "Configuration must be defined in the format: {inputs,outputs,rows,columns,arity,lback,funcSetSize}")
        ELSE IF SomeNaN(tokens)
        THEN Err("Configuration block contains non-numeric values.",
                 "Expected 7 numbers but found: " \o Text(configMatch.capture))
        ELSE IF ~ ConfigParamCountOk(configParams)
        THEN Err("Invalid configuration: Expected 7 parameters, found "
                   \o ToString(Len(configParams)) \o ".",
                 "Required format: {inputs,outputs,rows,cols,arity,lback,funcSetSize}")
        ELSE ParseBody(s, MakeConfig(configParams))


(***************************************************************************)
(* The hook useCgpParser: reading the raw input                            *)
(***************************************************************************)

\* A JavaScript value: its type and, for a string or a number, its text.
StringValue(text) == [type |-> "string", text |-> text]

\* !value
Falsy(v) ==
    CASE v.type = "string" -> v.text = ""
      [] v.type = "number" -> v.text = "0"
      [] v.type \in {"undefined", "null"} -> TRUE
      [] OTHER -> FALSE

\* The JavaScript null.
Null == <<>>

IsNull(v) == DOMAIN v = {}

RECURSIVE TrimStart(_)
TrimStart(s) == IF s # <<>> /\ IsSpace(Head(s)) THEN TrimStart(Tail(s)) ELSE s

RECURSIVE TrimEnd(_)
TrimEnd(s) ==
    IF s # <<>> /\ IsSpace(s[Len(s)]) THEN TrimEnd(SubSeq(s, 1, Len(s) - 1)) ELSE s

\* String.prototype.trim
Trim(s) == TrimEnd(TrimStart(s))

\* String.prototype.split('\n')
RECURSIVE SplitLines(_)
SplitLines(s) ==
    LET k == IndexOfFrom(s, "\n", 1)
    IN  IF k = 0 THEN <<s>>
        ELSE <<SubSeq(s, 1, k - 1)>> \o SplitLines(SubSeq(s, k + 1, Len(s)))

\* The lines without the filter of the blank ones.
Lines_Unfiltered(s) == SplitLines(s)

\* cgpString.split('\n').filter(line => line.trim())
Lines(s) == SelectSeq(SplitLines(s), LAMBDA line : Trim(line) # <<>>)

\* String.prototype.startsWith
LineStartsWith(line, prefix) ==
    Len(prefix) <= Len(line) /\ SubSeq(line, 1, Len(prefix)) = prefix

\* The number of the first run of digits of a name, 0 when it has none.
FirstNumber(name) ==
    LET digits == {i \in 1..Len(name) : IsDigit(name[i])}
    IN  IF digits = {} THEN 0
        ELSE LET first == CHOOSE i \in digits : \A j \in digits : i <= j
             IN  ParseInt(SubSeq(name, first, DigitRunEnd(name, first)))

\* Names that are stored in reverse when one of them has the form i<digits>
\* and the number of the first exceeds the number of the last.
DirectiveNames_ReverseDescending(line) ==
    LET k       == IndexOfFrom(line, " ", 1)
        nameStr == Trim(SubSeq(line, k + 1, Len(line)))
        pieces  == Split(nameStr)
        names   == [i \in 1..Len(pieces) |-> Trim(pieces[i])]
        n       == Len(names)
        isReversed ==
            /\ n > 1
            /\ \E i \in 1..n : \E j \in 1..(Len(names[i]) - 1) :
                   names[i][j] = "i" /\ IsDigit(names[i][j + 1])
            /\ FirstNumber(names[1]) > FirstNumber(names[n])
    IN  [i \in 1..n |-> Text(names[IF isReversed THEN n + 1 - i ELSE i])]

\* line.substring(line.indexOf(' ') + 1).trim().split(',').map(name => name.trim())
DirectiveNames(line) ==
    LET k       == IndexOfFrom(line, " ", 1)
        nameStr == Trim(SubSeq(line, k + 1, Len(line)))
        names   == Split(nameStr)
    IN  [i \in 1..Len(names) |-> Text(Trim(names[i]))]

\* A loop that takes a plain comment line as the data line.
RECURSIVE ScanLines_CommentIsData(_, _, _, _)
ScanLines_CommentIsData(lines, i, inNames, outNames) ==
    IF i > Len(lines)
    THEN [inputNames |-> inNames, outputNames |-> outNames,
          found |-> FALSE, actualCgpString |-> <<>>]
    ELSE LET line == lines[i]
         IN  IF LineStartsWith(line, Chars("#%i"))
             THEN ScanLines_CommentIsData(lines, i + 1,
                                          inNames \o DirectiveNames(line), outNames)
             ELSE IF LineStartsWith(line, Chars("#%o"))
             THEN ScanLines_CommentIsData(lines, i + 1, inNames,
                                          outNames \o DirectiveNames(line))
             ELSE [inputNames |-> inNames, outputNames |-> outNames,
                   found |-> TRUE, actualCgpString |-> line]

\* A loop without the break: it goes on reading directives after the data
\* line.
RECURSIVE ScanLines_NoBreak(_, _, _, _)
ScanLines_NoBreak(lines, i, inNames, outNames) ==
    IF i > Len(lines)
    THEN [inputNames |-> inNames, outputNames |-> outNames,
          found |-> FALSE, actualCgpString |-> <<>>]
    ELSE LET line == lines[i]
             rest == ScanLines_NoBreak(lines, i + 1, <<>>, <<>>)
         IN  IF LineStartsWith(line, Chars("#%i"))
             THEN ScanLines_NoBreak(lines, i + 1, inNames \o DirectiveNames(line), outNames)
             ELSE IF LineStartsWith(line, Chars("#%o"))
             THEN ScanLines_NoBreak(lines, i + 1, inNames, outNames \o DirectiveNames(line))
             ELSE IF ~ LineStartsWith(line, Chars("#"))
             THEN [inputNames |-> inNames \o rest.inputNames,
                   outputNames |-> outNames \o rest.outputNames,
                   found |-> TRUE, actualCgpString |-> line]
             ELSE ScanLines_NoBreak(lines, i + 1, inNames, outNames)

\* The for loop over the lines, from line i on: the names pushed and the
\* first line that does not start with '#', at which the loop breaks.
RECURSIVE ScanLines(_, _, _, _)
ScanLines(lines, i, inNames, outNames) ==
    IF i > Len(lines)
    THEN [inputNames |-> inNames, outputNames |-> outNames,
          found |-> FALSE, actualCgpString |-> <<>>]
    ELSE LET line == lines[i]
         IN  IF LineStartsWith(line, Chars("#%i"))
             THEN ScanLines(lines, i + 1, inNames \o DirectiveNames(line), outNames)
             ELSE IF LineStartsWith(line, Chars("#%o"))
             THEN ScanLines(lines, i + 1, inNames, outNames \o DirectiveNames(line))
             ELSE IF ~ LineStartsWith(line, Chars("#"))
             THEN [inputNames |-> inNames, outputNames |-> outNames,
                   found |-> TRUE, actualCgpString |-> line]
             ELSE ScanLines(lines, i + 1, inNames, outNames)

\* Default names numbered from 1.
DefaultName_OneBased(label, i) == label \o " " \o ToString(i + 1)

\* `Input ${i}` / `Output ${i}`
DefaultName(label, i) == label \o " " \o ToString(i)

\* The names of one kind after the reconciliation with the config count
\* and the defaulting of an empty list.
ReconcileNames(names, count, label) ==
    LET adjusted ==
            IF Len(names) > 0 /\ Len(names) # count
            THEN IF Len(names) < count
                 THEN names \o [k \in 1..(count - Len(names)) |->
                                    DefaultName(label, Len(names) + k - 1)]
                 ELSE SubSeq(names, 1, count)
            ELSE names
    IN  IF Len(adjusted) > 0 THEN adjusted
        ELSE [k \in 1..count |-> DefaultName(label, k - 1)]

\* The object the hook returns.
HookReturn(parsedData, parseError, activeNodes) ==
    [parsedData |-> parsedData, parseError |-> parseError, activeNodes |-> activeNodes]

EmptyInputReturn ==
    HookReturn(Null,
               Err("CGP string is empty.",
                   "Please enter a valid CGP string or upload a file."),
               {})

NoDataLineReturn ==
    HookReturn(Null,
               Err("No valid CGP string found.",
                   "Expected format: {inputs,outputs,rows,columns,arity,lback,funcSetSize}([nodeFunction,input1,input2,...])([outputMapping])"),
               {})

\* A catch clause that drops the detail.
CaughtReturn_NoDetail(message) ==
    [parsedData |-> <<>>, parseError |-> [error |-> "Parsing error"], activeNodes |-> {}]

\* The catch clause: the fault's message becomes the detail.
CaughtReturn(message) ==
    HookReturn(Null,
               Err("Parsing error",
                   IF message = "" THEN "Unknown parsing error occurred." ELSE message),
               {})


(***************************************************************************)
(* The inputs                                                              *)
(*                                                                         *)
(* An input string is a configuration text, then up to MaxBlocks node      *)
(* texts, then an output text.  Two families are enumerated: graph inputs  *)
(* (well-formed blocks over a three-node grid, in every order and          *)
(* combination, so that holes, chains, shared nodes, self, forward and     *)
(* too-distant references all occur) and defect inputs (every kind of      *)
(* malformed configuration, block and output section, combined, so that    *)
(* one string can violate several checks).                                 *)
(***************************************************************************)

MaxBlocks == 2

RECURSIVE Join(_)
Join(parts) == IF parts = <<>> THEN "" ELSE Head(parts) \o Join(Tail(parts))

BlockSeqs(S) == UNION {[1..n -> S] : n \in 0..MaxBlocks}

BlockText(idx, a, b, f) == "([" \o idx \o "]" \o a \o "," \o b \o "," \o f \o ")"

GraphConfigs == {"{1,1,1,3,2,1,2}", "{1,1,2,2,2,1,2}", "{1,2,1,3,2,2,2}"}

GraphRefs == {<<"0", "0">>, <<"1", "0">>, <<"0", "2">>,
              <<"1", "2">>, <<"2", "1">>, <<"3", "0">>}

GraphBlocks == {BlockText(idx, r[1], r[2], "0") : idx \in {"1", "2", "3"}, r \in GraphRefs}

GraphOutputs == {"(0)", "(2)", "(3)", "(3,2)", "(0,3)"}

DefectConfigs ==
    {"", "{}", "{1,1,1,3,2}", "{1,1,1,3,2,1,2,9}", "{1,a,1,3,2,1,2}",
     "{-1,1,1,3,2,1,2}", "{1,0,1,3,2,1,2}", "{1,1,0,3,2,1,2}", "{1,1,1,0,2,1,2}",
     "{1,1,1,3,1,1,2}", "{1,1,1,3,2,0,2}", "{1,1,1,3,2,1,}", "{-1,0,0,0,1,0,0}",
     "{0,1,1,3,2,1,2}", "{,1,1,3,2,1,2}", "{1,1,1,3,2,1,2}"}

DefectBlocks ==
    {"([0]0,0,0)", "([9]0,a)", "([1]0,a)", "([1]0,5)", "([1]1,0,5)",
     "([2]-1,3,0)", "([3]1,3,0)", "( [2] 1 , 0 , 1 )", "([1]0,0,1)", "([2]0,,1)"}

DefectOutputs == {"", "(1)", "(0)", "(1,2)", "(7)", "(a)"}

BlankInputs == {"", "   "}

InputText(cfg, blocks, out) == cfg \o Join(blocks) \o out

\* The valid examples of the tester.
ValidExamples ==
    {"{2,1,1,2,2,2,4}([2]0,1,0)([3]0,1,1)(3)",
     "{3,2,2,2,2,2,4}([3]0,1,0)([4]0,2,1)([5]3,4,2)([6]3,5,3)(5,6)",
     "{2,1,3,4,2,4,4}([2]0,1,0)([3]0,1,1)([4]0,1,2)([5]2,3,3)([6]2,4,1)([7]3,4,0)([8]5,6,2)([9]6,7,3)([10]5,7,1)([11]8,9,2)([12]9,10,0)([13]10,11,3)(13)",
     "{1,1,3,3,2,3,4}([1]0,0,0)([2]0,0,1)([3]0,0,2)([4]1,2,3)([5]2,3,1)([6]3,1,2)([7]4,5,1)([8]5,6,0)([9]6,4,3)(9)",
     "{2,2,2,3,2,3,4}([2]0,1,0)([3]0,1,1)([4]1,0,2)([5]2,3,3)([6]3,4,1)([7]4,2,2)(5,6)",
     "{5,1,5,5,2,5,4}([5]3,4,1)([6]3,3,1)([7]2,2,1)([8]4,3,2)([9]3,0,0)([10]5,0,2)([11]9,7,3)([12]8,1,2)([13]2,5,3)([14]8,1,1)([15]10,12,1)([16]14,0,2)([17]2,14,2)([18]13,12,1)([19]12,10,2)([20]0,15,0)([21]18,16,1)([22]17,15,1)([23]2,4,2)([24]15,0,0)([25]2,1,0)([26]21,0,2)([27]22,21,2)([28]4,2,3)([29]21,1,3)(27)",
     "{2,1,1,3,2,3,4}([2]0,1,1)([3]0,1,2)([4]2,0,3)(4)",
     "{2,1,1,3,2,3,3}([2]0,1,0)([3]0,1,1)([4]2,3,2)(4)"}

\* The string the application starts with.
DEFAULT_CGP_STRING ==
    "{5,1, 5,5, 2,1,13}([5]3,4,1)([6]3,3,1)([7]2,2,1)([8]4,3,2)([9]3,0,0)([10]5,0,2)([11]9,7,3)([12]8,1,2)([13]2,5,3)([14]8,1,1)([15]10,12,1)([16]14,0,2)([17]2,14,2)([18]13,12,1)([19]12,10,2)([20]0,15,0)([21]18,16,1)([22]17,15,1)([23]2,4,2)([24]15,0,0)([25]2,1,0)([26]21,0,2)([27]22,21,2)([28]4,2,3)([29]21,1,3)(27)"

\* The error examples of the tester.
ErrorExamples ==
    {"([2]0,1,0)([3]0,1,1)(3)",
     "{2,1,1,2,2}([2]0,1,0)([3]0,1,1)(3)",
     "{2,1,1,2,2,2,4}([4]0,1,0)([5]0,1,1)(5)",
     "{2,1,2,3,2,1,4}([2]0,1,0)([3]0,1,1)([4]2,3,2)([5]2,4,3)(5)",
     "{2,1,1,2,2,2,3}([2]0,1,5)([3]0,1,1)(3)",
     "{2,1,1,2,2,2,4}([2]0,1,0)([3]0,1,1)",
     "{2,2,1,2,2,2,4}([2]0,1,0)([3]0,1,1)(3)",
     "{2,1,1,2,2,2,4}([2]0,1,0)([3]0,1,1)(7)"}

\* Raw inputs of several lines: up to MaxHeaderLines lines (directives,
\* comments, blank lines), then at most one data line, then at most one
\* further line.
MaxHeaderLines == 2

HeaderLines ==
    {"#%i a,b", "#%i i2,i1,i0", "#%o y", "#%o p, q ,r", "# note", "#%ix", "  ", ""}

DataLines ==
    {"{2,1,1,2,2,2,4}([2]0,1,0)([3]0,1,1)(3)",
     "{1,2,1,3,2,2,2}([1]0,0,0)([2]1,0,1)(2,0)",
     " # indented",
     "{1,1}"}

TrailerLines == {"#%i z", "#%o w", "{2,1,1,2,2,2,4}([2]0,1,0)(2)", "#"}

\* Circuits in which a node is named by two outputs, by two inputs of one
\* node, or by inputs of two nodes.
SharedNodeExamples ==
    {"{1,2,1,3,2,2,2}([1]0,0,0)([2]1,1,0)(2,2)",
     "{1,2,1,3,2,2,2}([1]0,0,0)([2]1,1,0)([3]1,2,0)(3,2)",
     "{1,2,2,2,2,2,2}([1]0,0,0)([2]0,0,0)([3]2,1,0)([4]1,2,0)(4,3)"}

LineSeqs(S, n) == UNION {[1..k -> S] : k \in 0..n}

RECURSIVE JoinLines(_)
JoinLines(lines) ==
    IF lines = <<>> THEN ""
    ELSE IF Len(lines) = 1 THEN lines[1]
    ELSE lines[1] \o "\n" \o JoinLines(Tail(lines))

RawTexts ==
    {JoinLines(h \o d \o t) : h \in LineSeqs(HeaderLines, MaxHeaderLines),
                              d \in LineSeqs(DataLines, 1),
                              t \in LineSeqs(TrailerLines, 1)}

\* Values that are not strings.
NonStringValues ==
    {[type |-> "undefined", text |-> ""], [type |-> "null", text |-> ""],
     [type |-> "number", text |-> "0"], [type |-> "number", text |-> "7"],
     [type |-> "object", text |-> ""]}

(***************************************************************************)
(* The run of the hook: read the input, parse, then findActiveNodes, then  *)
(* calculateNodeDelays                                                     *)
(***************************************************************************)

Init ==
    /\ \/ \E cfg \in GraphConfigs, blocks \in BlockSeqs(GraphBlocks), out \in GraphOutputs :
              cgpString = StringValue(InputText(cfg, blocks, out))
       \/ \E cfg \in DefectConfigs, blocks \in BlockSeqs(DefectBlocks), out \in DefectOutputs :
              cgpString = StringValue(InputText(cfg, blocks, out))
       \/ \E text \in BlankInputs \cup ValidExamples \cup {DEFAULT_CGP_STRING}
                        \cup ErrorExamples \cup SharedNodeExamples \cup RawTexts :
              cgpString = StringValue(text)
       \/ cgpString \in NonStringValues
    /\ inputNames = <<>>
    /\ outputNames = <<>>
    /\ ret = <<>>
    /\ str = ""
    /\ pc = "start"
    /\ result = <<>>
    /\ active = {}
    /\ toProcess = <<>>
    /\ visited = {}
    /\ seedPos = 0
    /\ delays = <<>>
    /\ pending = <<>>
    /\ stack = <<>>

\* useCgpParser up to the call of parseCGPString: the empty-input return,
\* the fault of calling trim on a value that has none (caught), the scan of
\* the lines and the no-data-line return.
Extract ==
    /\ pc = "start"
    /\ IF Falsy(cgpString)
       THEN /\ ret' = EmptyInputReturn
            /\ pc' = "done"
            /\ UNCHANGED <<inputNames, outputNames, str>>
       ELSE IF cgpString.type # "string"
       THEN /\ ret' = CaughtReturn("cgpString.trim is not a function")
            /\ pc' = "done"
            /\ UNCHANGED <<inputNames, outputNames, str>>
       ELSE IF Trim(Chars(cgpString.text)) = <<>>
       THEN /\ ret' = EmptyInputReturn
            /\ pc' = "done"
            /\ UNCHANGED <<inputNames, outputNames, str>>
       ELSE LET scan == ScanLines(Lines(Chars(cgpString.text)), 1, <<>>, <<>>)
            IN  /\ inputNames' = scan.inputNames
                /\ outputNames' = scan.outputNames
                /\ IF scan.found
                   THEN /\ str' = Text(scan.actualCgpString)
                        /\ pc' = "parse"
                        /\ ret' = ret
                   ELSE /\ ret' = NoDataLineReturn
                        /\ pc' = "done"
                        /\ str' = str
    /\ UNCHANGED <<cgpString, result, active, toProcess, visited, seedPos, delays,
                   pending, stack>>

\* The call of parseCGPString: an error result is returned as parseError;
\* on success the names are reconciled with the config.  (A successful
\* result always has a config, so the "Failed to parse CGP configuration."
\* return is never taken.)
Parse ==
    /\ pc = "parse"
    /\ result' = parseCGPString(str)
    /\ IF IsError(result')
       THEN /\ pc' = "done"
            /\ ret' = HookReturn(Null, result', {})
            /\ UNCHANGED <<inputNames, outputNames>>
       ELSE /\ pc' = "seed"
            /\ ret' = ret
            /\ inputNames' = ReconcileNames(inputNames, result'.config.inputs, "Input")
            /\ outputNames' = ReconcileNames(outputNames, result'.config.outputs, "Output")
    /\ UNCHANGED <<cgpString, str, active, toProcess, visited, seedPos, delays,
                   pending, stack>>

\* A circuit-node test that leaves out the first grid index.
IsCircuitNode_Strict(nodeIdx, config) == nodeIdx > config.startIndex

\* "Only process if it's a circuit node (not an input)".
IsCircuitNode(nodeIdx, config) == nodeIdx >= config.startIndex

\* findActiveNodes, one iteration of outputNodeIndices.forEach.
SeedOutput ==
    /\ pc = "seed"
    /\ seedPos < Len(result.outputNodeIndices)
    /\ LET nodeIdx == result.outputNodeIndices[seedPos + 1]
           push == IsCircuitNode(nodeIdx, result.config) /\ nodeIdx \notin visited
       IN  /\ visited' = IF push THEN visited \cup {nodeIdx} ELSE visited
           /\ toProcess' = IF push THEN Append(toProcess, nodeIdx) ELSE toProcess
    /\ seedPos' = seedPos + 1
    /\ UNCHANGED <<hookVars, str, pc, result, active, delays, pending, stack>>

\* findActiveNodes, the end of the seeding loop.
SeedDone ==
    /\ pc = "seed"
    /\ seedPos = Len(result.outputNodeIndices)
    /\ pc' = "active"
    /\ UNCHANGED <<hookVars, str, result, active, toProcess, visited, seedPos, delays, pending, stack>>

\* A push test that takes the first grid index for a primary input.
ShouldTrace_Strict(inputIndex, seen, parsed) ==
    /\ inputIndex > parsed.config.inputs
    /\ MapHas(parsed.nodeDefinitions, inputIndex)
    /\ inputIndex \notin seen

\* The test that pushes an input of the current node onto the worklist.
ShouldTrace(inputIndex, seen, parsed) ==
    /\ inputIndex >= parsed.config.inputs
    /\ MapHas(parsed.nodeDefinitions, inputIndex)
    /\ inputIndex \notin seen

\* A loop that pushes an input without marking it visited.
RECURSIVE TraceInputs_NoMark(_, _, _, _, _)
TraceInputs_NoMark(inputsToTrace, i, work, seen, parsed) ==
    IF i > Len(inputsToTrace) THEN [toProcess |-> work, visited |-> seen]
    ELSE LET inputIndex == inputsToTrace[i]
         IN  IF ShouldTrace(inputIndex, seen, parsed)
             THEN TraceInputs_NoMark(inputsToTrace, i + 1, Append(work, inputIndex),
                                     seen, parsed)
             ELSE TraceInputs_NoMark(inputsToTrace, i + 1, work, seen, parsed)

\* A loop that stops at the first input it pushes.
RECURSIVE TraceInputs_FirstOnly(_, _, _, _, _)
TraceInputs_FirstOnly(inputsToTrace, i, work, seen, parsed) ==
    IF i > Len(inputsToTrace) THEN [toProcess |-> work, visited |-> seen]
    ELSE LET inputIndex == inputsToTrace[i]
         IN  IF ShouldTrace(inputIndex, seen, parsed)
             THEN [toProcess |-> Append(work, inputIndex),
                   visited   |-> seen \cup {inputIndex}]
             ELSE TraceInputs_FirstOnly(inputsToTrace, i + 1, work, seen, parsed)

\* The for loop over a node's inputs: the worklist and the visited set after
\* the inputs from position i on.
RECURSIVE TraceInputs(_, _, _, _, _)
TraceInputs(inputsToTrace, i, work, seen, parsed) ==
    IF i > Len(inputsToTrace) THEN [toProcess |-> work, visited |-> seen]
    ELSE LET inputIndex == inputsToTrace[i]
         IN  IF ShouldTrace(inputIndex, seen, parsed)
             THEN TraceInputs(inputsToTrace, i + 1, Append(work, inputIndex),
                              seen \cup {inputIndex}, parsed)
             ELSE TraceInputs(inputsToTrace, i + 1, work, seen, parsed)

\* findActiveNodes, one iteration of the while loop.
ProcessNode ==
    /\ pc = "active"
    /\ toProcess # <<>>
    /\ LET currentIndex == toProcess[Len(toProcess)]
           rest == SubSeq(toProcess, 1, Len(toProcess) - 1)
           defined == MapHas(result.nodeDefinitions, currentIndex)
           traced == IF defined
                     THEN TraceInputs(MapGet(result.nodeDefinitions, currentIndex).inputs,
                                      1, rest, visited, result)
                     ELSE [toProcess |-> rest, visited |-> visited]
       IN  /\ active' = IF IsCircuitNode(currentIndex, result.config) /\ defined
                        THEN active \cup {currentIndex}
                        ELSE active
           /\ toProcess' = traced.toProcess
           /\ visited' = traced.visited
    /\ UNCHANGED <<hookVars, str, pc, result, seedPos, delays, pending, stack>>

Key(i) == ToString(i)

KeyToInt(k) == ParseInt(Chars(k))

\* A lookup that never finds a stored delay.
HasDelay_Never(d, k) == FALSE

\* delays[nodeId] !== undefined
HasDelay(d, k) == k \in DOMAIN d

SetDelay(d, k, v) == [x \in DOMAIN d \cup {k} |-> IF x = k THEN v ELSE d[x]]

\* findActiveNodes returns; calculateNodeDelays starts: the primary inputs
\* get delay 0 and nodeDefinitions.forEach is about to run.
StartDelays ==
    /\ pc = "active"
    /\ toProcess = <<>>
    /\ delays' = [k \in {Key(i) : i \in 0..(result.config.inputs - 1)} |-> 0]
    /\ pending' = [i \in 1..Len(result.nodeDefinitions) |-> result.nodeDefinitions[i].index]
    /\ pc' = "delays"
    /\ UNCHANGED <<hookVars, str, result, active, toProcess, visited, seedPos, stack>>

Frame(nodeId) == [nodeId |-> nodeId, inputDelays |-> <<>>]

\* nodeDefinitions.forEach: the call getNodeDelay(String(nodeId), ...) for the
\* next node, up to its first recursive call or its return.
VisitNode ==
    /\ pc = "delays"
    /\ stack = <<>>
    /\ pending # <<>>
    /\ LET nodeId == Head(pending)
       IN  stack' = IF nodeId < result.config.inputs
                       \/ HasDelay(delays, Key(nodeId))
                       \/ ~ MapHas(result.nodeDefinitions, KeyToInt(Key(nodeId)))
                    THEN <<>>
                    ELSE <<Frame(Key(nodeId))>>
    /\ pending' = Tail(pending)
    /\ UNCHANGED <<hookVars, str, pc, result, active, toProcess, visited, seedPos, delays>>

TopFrame == stack[Len(stack)]

TopInputs == MapGet(result.nodeDefinitions, KeyToInt(TopFrame.nodeId)).inputs

WithTop(f) == [stack EXCEPT ![Len(stack)] = f]

\* getNodeDelay: the map callback on the next input when it needs no new
\* frame: a primary input, a memoized node or a node without definition.
MapInput ==
    /\ pc = "delays"
    /\ stack # <<>>
    /\ Len(TopFrame.inputDelays) < Len(TopInputs)
    /\ LET inputId == TopInputs[Len(TopFrame.inputDelays) + 1]
       IN  /\ \/ inputId < result.config.inputs
              \/ HasDelay(delays, Key(inputId))
              \/ ~ MapHas(result.nodeDefinitions, KeyToInt(Key(inputId)))
           /\ LET value == IF inputId < result.config.inputs THEN 0
                           ELSE IF HasDelay(delays, Key(inputId))
                           THEN delays[Key(inputId)] + 1
                           ELSE 0 + 1
              IN  stack' = WithTop([TopFrame EXCEPT
                               !.inputDelays = Append(@, value)])
    /\ UNCHANGED <<hookVars, str, pc, result, active, toProcess, visited, seedPos, delays, pending>>

\* getNodeDelay: the map callback calls getNodeDelay for an input node that
\* has a definition and no memoized delay.
CallInput ==
    /\ pc = "delays"
    /\ stack # <<>>
    /\ Len(TopFrame.inputDelays) < Len(TopInputs)
    /\ LET inputId == TopInputs[Len(TopFrame.inputDelays) + 1]
       IN  /\ ~ (inputId < result.config.inputs)
           /\ ~ HasDelay(delays, Key(inputId))
           /\ MapHas(result.nodeDefinitions, KeyToInt(Key(inputId)))
           /\ stack' = Append(stack, Frame(Key(inputId)))
    /\ UNCHANGED <<hookVars, str, pc, result, active, toProcess, visited, seedPos, delays, pending>>

\* The delay of the first input instead of the maximum.
MaxOf_First(values) == IF values = <<>> THEN 0 ELSE values[1]

\* Math.max(...inputDelays), or 0 for no inputs.
RECURSIVE MaxOf(_)
MaxOf(values) ==
    IF values = <<>> THEN 0
    ELSE IF Len(values) = 1 THEN values[1]
    ELSE LET m == MaxOf(Tail(values))
         IN  IF values[1] > m THEN values[1] ELSE m

\* getNodeDelay: all inputs mapped; the delay is stored and returned, and
\* the caller (if any) adds 1 to it.
ReturnDelay ==
    /\ pc = "delays"
    /\ stack # <<>>
    /\ Len(TopFrame.inputDelays) = Len(TopInputs)
    /\ LET maxDelay == MaxOf(TopFrame.inputDelays)
           callers == SubSeq(stack, 1, Len(stack) - 1)
       IN  /\ delays' = SetDelay(delays, TopFrame.nodeId, maxDelay)
           /\ stack' = IF callers = <<>> THEN <<>>
                       ELSE [callers EXCEPT ![Len(callers)].inputDelays =
                                Append(@, maxDelay + 1)]
    /\ UNCHANGED <<hookVars, str, pc, result, active, toProcess, visited, seedPos, pending>>

\* An output key that ignores the position.
OutputKey_Fixed(outputIndex) == "output-0"

\* `output-${outputIndex}`
OutputKey(outputIndex) == "output-" \o ToString(outputIndex)

\* An output loop that copies the source delay without the output's own step.
RECURSIVE OutputDelays_NoStep(_, _, _)
OutputDelays_NoStep(d, outputNodeIndices, i) ==
    IF i > Len(outputNodeIndices) THEN d
    ELSE LET sourceNodeId == outputNodeIndices[i]
             sourceDelay  == IF HasDelay(d, ToString(sourceNodeId))
                             THEN d[ToString(sourceNodeId)] ELSE 0
         IN  OutputDelays_NoStep(
                 [x \in DOMAIN d \cup {"output-" \o ToString(i - 1)} |->
                      IF x = "output-" \o ToString(i - 1) THEN sourceDelay ELSE d[x]],
                 outputNodeIndices, i + 1)

\* outputNodeIndices.forEach of calculateNodeDelays, from position i
\* (0-based outputIndex i - 1) on.
RECURSIVE OutputDelays(_, _, _)
OutputDelays(d, outputNodeIndices, i) ==
    IF i > Len(outputNodeIndices) THEN d
    ELSE LET sourceNodeId == outputNodeIndices[i]
             sourceDelay  == IF HasDelay(d, Key(sourceNodeId))
                             THEN d[Key(sourceNodeId)] ELSE 0
         IN  OutputDelays(SetDelay(d, OutputKey(i - 1), sourceDelay + 1),
                          outputNodeIndices, i + 1)

\* calculateNodeDelays: the output loop and the return.
FinishDelays ==
    /\ pc = "delays"
    /\ stack = <<>>
    /\ pending = <<>>
    /\ delays' = OutputDelays(delays, result.outputNodeIndices, 1)
    /\ pc' = "done"
    /\ ret' = HookReturn([config            |-> result.config,
                          nodeDefinitions   |-> result.nodeDefinitions,
                          outputNodeIndices |-> result.outputNodeIndices,
                          inputNames        |-> inputNames,
                          outputNames       |-> outputNames,
                          nodeDelays        |-> delays'],
                         Null, active)
    /\ UNCHANGED <<cgpString, inputNames, outputNames,
                   str, result, active, toProcess, visited, seedPos, pending, stack>>

Next ==
    \/ Extract
    \/ Parse
    \/ SeedOutput
    \/ SeedDone
    \/ ProcessNode
    \/ StartDelays
    \/ VisitNode
    \/ MapInput
    \/ CallInput
    \/ ReturnDelay
    \/ FinishDelays

Spec == Init /\ [][Next]_vars


(***************************************************************************)
(* The analyses and the hook as functions of their arguments               *)
(***************************************************************************)

\* findActiveNodes: outputNodeIndices.forEach from position i on.
RECURSIVE SeedOutputs(_, _, _, _, _)
SeedOutputs(outputNodeIndices, i, work, seen, config) ==
    IF i > Len(outputNodeIndices) THEN [toProcess |-> work, visited |-> seen]
    ELSE LET nodeIdx == outputNodeIndices[i]
         IN  IF IsCircuitNode(nodeIdx, config) /\ nodeIdx \notin seen
             THEN SeedOutputs(outputNodeIndices, i + 1, Append(work, nodeIdx),
                              seen \cup {nodeIdx}, config)
             ELSE SeedOutputs(outputNodeIndices, i + 1, work, seen, config)

\* findActiveNodes: the while loop, to its end.
RECURSIVE ProcessAll(_, _, _, _)
ProcessAll(work, seen, act, parsed) ==
    IF work = <<>> THEN act
    ELSE LET currentIndex == work[Len(work)]
             rest    == SubSeq(work, 1, Len(work) - 1)
             defined == MapHas(parsed.nodeDefinitions, currentIndex)
             traced  == IF defined
                        THEN TraceInputs(MapGet(parsed.nodeDefinitions, currentIndex).inputs,
                                         1, rest, seen, parsed)
                        ELSE [toProcess |-> rest, visited |-> seen]
         IN  ProcessAll(traced.toProcess, traced.visited,
                        IF IsCircuitNode(currentIndex, parsed.config) /\ defined
                        THEN act \cup {currentIndex} ELSE act,
                        parsed)

\* findActiveNodes(config, nodeDefinitions, outputNodeIndices)
findActiveNodes(config, nodeDefinitions, outputNodeIndices) ==
    LET seeded == SeedOutputs(outputNodeIndices, 1, <<>>, {}, config)
    IN  ProcessAll(seeded.toProcess, seeded.visited, {},
                   [config |-> config, nodeDefinitions |-> nodeDefinitions])

\* getNodeDelay(nodeId, nodeDefinitions, delays, inputCount): the value
\* returned and the delays object after the call.  InputDelaysFrom is the
\* map over the node's inputs from position i on.
RECURSIVE getNodeDelay(_, _, _, _)
RECURSIVE InputDelaysFrom(_, _, _, _, _, _)
InputDelaysFrom(inputs, i, nodeDefinitions, d, inputCount, inputDelays) ==
    IF i > Len(inputs) THEN [delays |-> d, inputDelays |-> inputDelays]
    ELSE LET inputId == inputs[i]
         IN  IF inputId < inputCount
             THEN InputDelaysFrom(inputs, i + 1, nodeDefinitions, d, inputCount,
                                  Append(inputDelays, 0))
             ELSE LET call == getNodeDelay(Key(inputId), nodeDefinitions, d, inputCount)
                  IN  InputDelaysFrom(inputs, i + 1, nodeDefinitions, call.delays,
                                      inputCount, Append(inputDelays, call.value + 1))

getNodeDelay(nodeId, nodeDefinitions, d, inputCount) ==
    IF HasDelay(d, nodeId) THEN [delays |-> d, value |-> d[nodeId]]
    ELSE IF ~ MapHas(nodeDefinitions, KeyToInt(nodeId)) THEN [delays |-> d, value |-> 0]
    ELSE LET mapped   == InputDelaysFrom(MapGet(nodeDefinitions, KeyToInt(nodeId)).inputs,
                                         1, nodeDefinitions, d, inputCount, <<>>)
             maxDelay == MaxOf(mapped.inputDelays)
         IN  [delays |-> SetDelay(mapped.delays, nodeId, maxDelay), value |-> maxDelay]

\* calculateNodeDelays: nodeDefinitions.forEach from position i on.
RECURSIVE NodeDelaysFrom(_, _, _, _)
NodeDelaysFrom(nodeDefinitions, i, d, config) ==
    IF i > Len(nodeDefinitions) THEN d
    ELSE LET nodeId == nodeDefinitions[i].index
         IN  IF nodeId < config.inputs
             THEN NodeDelaysFrom(nodeDefinitions, i + 1, d, config)
             ELSE NodeDelaysFrom(nodeDefinitions, i + 1,
                                 getNodeDelay(Key(nodeId), nodeDefinitions, d,
                                              config.inputs).delays,
                                 config)

\* calculateNodeDelays(parsedData)
calculateNodeDelays(parsedData) ==
    LET inputDelays == [k \in {Key(i) : i \in 0..(parsedData.config.inputs - 1)} |-> 0]
        nodeDelays  == NodeDelaysFrom(parsedData.nodeDefinitions, 1, inputDelays,
                                      parsedData.config)
    IN  OutputDelays(nodeDelays, parsedData.outputNodeIndices, 1)

\* useCgpParser(cgpString): the object returned for the value.
useCgpParser(value) ==
    IF Falsy(value) THEN EmptyInputReturn
    ELSE IF value.type # "string" THEN CaughtReturn("cgpString.trim is not a function")
    ELSE IF Trim(Chars(value.text)) = <<>> THEN EmptyInputReturn
    ELSE LET scan == ScanLines(Lines(Chars(value.text)), 1, <<>>, <<>>)
         IN  IF ~ scan.found THEN NoDataLineReturn
             ELSE LET parsed == parseCGPString(Text(scan.actualCgpString))
                  IN  IF IsError(parsed) THEN HookReturn(Null, parsed, {})
                      ELSE HookReturn(
                               [config            |-> parsed.config,
                                nodeDefinitions   |-> parsed.nodeDefinitions,
                                outputNodeIndices |-> parsed.outputNodeIndices,
                                inputNames        |-> ReconcileNames(scan.inputNames,
                                                         parsed.config.inputs, "Input"),
                                outputNames       |-> ReconcileNames(scan.outputNames,
                                                         parsed.config.outputs, "Output"),
                                nodeDelays        |-> calculateNodeDelays(parsed)],
                               Null,
                               findActiveNodes(parsed.config, parsed.nodeDefinitions,
                                               parsed.outputNodeIndices))


(***************************************************************************)
(* Properties of the parser's result                                       *)
(***************************************************************************)

Parsed == pc \notin {"start", "parse"} /\ ~ IsNull(result)

Accepted == Parsed /\ ~ IsError(result)

Nodes == result.nodeDefinitions

Cfg == result.config

NodeRefs(n) == {n.inputs[k] : k \in 1..Len(n.inputs)}

IsPrimaryRef(r) == 0 <= r /\ r < Cfg.inputs

C2_NoDanglingReference ==
    Accepted =>
        \A i \in 1..Len(Nodes) : \A r \in NodeRefs(Nodes[i]) :
            IsPrimaryRef(r) \/ MapHas(Nodes, r)

\* The column of a grid index, as the data model defines it.
ColumnOf(i) == (i - Cfg.startIndex) \div Cfg.rows

\* C3: in an accepted result, for every recorded node n and every input
\* reference r of n that is not a primary input,
\* column(n) - column(r) <= lback.
C3_Lookback ==
    Accepted =>
        \A i \in 1..Len(Nodes) : \A r \in NodeRefs(Nodes[i]) :
            IsPrimaryRef(r) \/ ColumnOf(Nodes[i].index) - ColumnOf(r) <= Cfg.lback

\* An accepted result with a node reference at exactly lback columns and a
\* primary-input reference whose column distance exceeds lback.
C3_Witness ==
    /\ Accepted
    /\ \E i \in 1..Len(Nodes) : \E r \in NodeRefs(Nodes[i]) :
           ~ IsPrimaryRef(r) /\ ColumnOf(Nodes[i].index) - ColumnOf(r) = Cfg.lback
    /\ \E i \in 1..Len(Nodes) : \E r \in NodeRefs(Nodes[i]) :
           IsPrimaryRef(r) /\ ColumnOf(Nodes[i].index) - ColumnOf(r) > Cfg.lback

\* The string contains no node block at all.
NoNodeBlock == ~ NodeExec(RemoveWhitespace(Chars(str)), 1).matched

\* C4: an accepted result records at least one node, every recorded index
\* lies in [startIndex, startIndex + rows*cols - 1] and none is recorded
\* twice; a string without any node block is rejected.
C4_NodeKeys ==
    /\ Accepted =>
           /\ Len(Nodes) >= 1
           /\ \A i \in 1..Len(Nodes) :
                  /\ Cfg.startIndex <= Nodes[i].index
                  /\ Nodes[i].index <= Cfg.startIndex + Cfg.rows * Cfg.cols - 1
           /\ \A i, j \in 1..Len(Nodes) : Nodes[i].index = Nodes[j].index => i = j
    /\ (Parsed /\ NoNodeBlock) => IsError(result)

\* A string with a valid configuration, no node block and an output that
\* names a primary input, rejected for having no node.
C4_Witness ==
    /\ Parsed
    /\ NoNodeBlock
    /\ str = "{1,1,1,3,2,1,2}(0)"
    /\ IsError(result)
    /\ result.error = "No node definitions found."

\* C5: in an accepted result outputNodeIndices has exactly config.outputs
\* entries, each a primary-input index or the index of a recorded node.
C5_Outputs ==
    Accepted =>
        /\ Len(result.outputNodeIndices) = Cfg.outputs
        /\ \A k \in 1..Len(result.outputNodeIndices) :
               \/ IsPrimaryRef(result.outputNodeIndices[k])
               \/ MapHas(Nodes, result.outputNodeIndices[k])

\* An accepted result with two outputs, one a primary input and one a node.
C5_Witness ==
    /\ Accepted
    /\ Len(result.outputNodeIndices) = 2
    /\ \E k \in 1..2 : IsPrimaryRef(result.outputNodeIndices[k])
    /\ \E k \in 1..2 : MapHas(Nodes, result.outputNodeIndices[k])

\* The tokens of the configuration block of the input (<<>> if none).
ConfigTokens ==
    LET m == ConfigMatch(RemoveWhitespace(Chars(str)))
    IN  IF m.matched THEN Split(m.capture) ELSE <<>>

Stripped == RemoveWhitespace(Chars(str))

\* Every node block of the string, in textual order.
RECURSIVE BlocksFrom(_, _)
BlocksFrom(s, from) ==
    LET m == NodeExec(s, from)
    IN  IF ~ m.matched THEN <<>> ELSE <<m>> \o BlocksFrom(s, m.last + 1)

Check(fails, error, detailStart) ==
    [fails |-> fails, error |-> error, detailStart |-> detailStart]

\* The checks of the configuration block of the string s.
ConfigChecks(s) ==
    LET m == ConfigMatch(s)
        tokens == IF m.matched THEN Split(m.capture) ELSE <<>>
        wellFormed == m.matched /\ ~ SomeNaN(tokens) /\ Len(tokens) = 7
        c == MakeConfig(Numbers(tokens))
    IN  <<Check(Len(s) = 0, "Empty CGP string.", ""),
          Check(~ m.matched, "Missing configuration block.", ""),
          Check(SomeNaN(tokens),
                "Configuration block contains non-numeric values.", ""),
          Check(m.matched /\ Len(tokens) # 7,
                "Invalid configuration: Expected 7 parameters, found "
                  \o ToString(Len(tokens)) \o ".", ""),
          Check(wellFormed /\ c.inputs < 0, "Invalid number of inputs.", ""),
          Check(wellFormed /\ c.outputs < 1, "Invalid number of outputs.", ""),
          Check(wellFormed /\ c.rows < 1, "Invalid number of rows.", ""),
          Check(wellFormed /\ c.cols < 1, "Invalid number of columns.", ""),
          Check(wellFormed /\ c.arity < 2, "Invalid arity value.", ""),
          Check(wellFormed /\ c.lback < 1, "Invalid L-back parameter.", ""),
          Check(wellFormed /\ c.funcSetSize < 1, "Invalid function set size.", "")>>

\* The two checks of input position i of a block with index idx, under the
\* configuration c.
InputChecks(c, idx, tokens, i) ==
    LET r == NumberOf(tokens[i])
        isNode == ~ (0 <= r /\ r < c.inputs)
        distance == ((idx - c.inputs) \div c.rows) - ((r - c.inputs) \div c.rows)
    IN  <<Check(isNode /\ (r < c.inputs \/ r >= idx),
                "Invalid connection in node [" \o ToString(idx) \o "].",
                "Input " \o ToString(i) \o " "),
          Check(isNode /\ distance > c.lback,
                "L-back constraint violation in node [" \o ToString(idx) \o "].",
                "Input " \o ToString(i) \o " ")>>

RECURSIVE InputChecksFrom(_, _, _, _)
InputChecksFrom(c, idx, tokens, i) ==
    IF i > c.arity THEN <<>>
    ELSE InputChecks(c, idx, tokens, i) \o InputChecksFrom(c, idx, tokens, i + 1)

\* The checks of block k of the blocks, whose indices are indices.
BlockChecks(c, blocks, indices, k) ==
    LET idx == indices[k]
        tokens == Split(blocks[k].content)
        numeric == ~ SomeNaN(tokens)
        shaped == numeric /\ Len(tokens) = c.arity + 1
        label == "[" \o ToString(idx) \o "]"
    IN  <<Check(idx < c.inputs \/ idx > c.inputs + c.rows * c.cols - 1,
                "Node index " \o ToString(idx) \o " out of range.", ""),
          Check(\E j \in 1..(k - 1) : indices[j] = idx,
                "Duplicate node definition.", ""),
          Check(~ numeric, "Invalid node " \o label \o " definition.", ""),
          Check(numeric /\ Len(tokens) # c.arity + 1,
                "Incorrect number of parameters for node " \o label \o ".", ""),
          Check(shaped /\ ~ (0 <= NumberOf(tokens[Len(tokens)])
                              /\ NumberOf(tokens[Len(tokens)]) < c.funcSetSize),
                "Invalid function ID in node " \o label \o ".", "")>>
        \o (IF shaped THEN InputChecksFrom(c, idx, tokens, 1) ELSE <<>>)

RECURSIVE BlockChecksFrom(_, _, _, _)
BlockChecksFrom(c, blocks, indices, k) ==
    IF k > Len(blocks) THEN <<>>
    ELSE BlockChecks(c, blocks, indices, k) \o BlockChecksFrom(c, blocks, indices, k + 1)

\* The checks made after the scan of the node blocks.
TailChecks(s, c, indices) ==
    LET m == OutputMatch(s)
        outs == IF m.matched THEN Numbers(Split(m.capture)) ELSE <<>>
        counted == m.matched /\ Len(outs) = c.outputs
        Known == {indices[k] : k \in 1..Len(indices)}
    IN  <<Check(Len(indices) = 0, "No node definitions found.", ""),
          Check(~ m.matched, "Missing output definition.", ""),
          Check(m.matched /\ Len(outs) # c.outputs,
                "Incorrect number of output nodes.", "")>>
        \o [k \in 1..(IF counted THEN Len(outs) ELSE 0) |->
               Check(~ ((0 <= outs[k] /\ outs[k] < c.inputs) \/ outs[k] \in Known),
                     "Invalid output node reference: " \o ToString(outs[k]) \o ".", "")]

Failing(checks) == {k \in 1..Len(checks) : checks[k].fails}

\* All checks of the string s in the documented order.  The node and output
\* checks read the configuration, so they are listed only for a
\* configuration that passed.
OrderedChecks(s) ==
    LET configChecks == ConfigChecks(s)
        c == MakeConfig(Numbers(Split(ConfigMatch(s).capture)))
        blocks == BlocksFrom(s, 1)
        indices == [k \in 1..Len(blocks) |-> ParseInt(blocks[k].index)]
    IN  IF Failing(configChecks) # {} THEN configChecks
        ELSE configChecks \o BlockChecksFrom(c, blocks, indices, 1)
                          \o TailChecks(s, c, indices)

\* The failing checks of the input, in the documented order.
FailingChecks ==
    LET checks == OrderedChecks(Stripped)
    IN  SelectSeq(checks, LAMBDA x : x.fails)

StartsWith(text, prefix) ==
    Len(prefix) <= Len(text) /\ SubSeq(text, 1, Len(prefix)) = prefix

\* C7: parseCGPString reports the error of the first failing check in the
\* order: empty input, missing config, non-numeric config, parameter count,
\* the config bounds (inputs, outputs, rows, cols, arity, lback,
\* funcSetSize), then per node block in textual order (index range,
\* duplicate, non-numeric content, parameter count, function ID, then per
\* input position invalid connection before lookback), then no node
\* definitions, missing output block, output count, invalid output
\* reference; the error result carries nothing but error and detail, and an
\* input that fails no check is accepted.
C7_FirstFailureWins ==
    Parsed =>
        LET failing == FailingChecks
        IN  IF failing = <<>>
            THEN ~ IsError(result)
            ELSE /\ DOMAIN result = {"error", "detail"}
                 /\ result.error = failing[1].error
                 /\ StartsWith(result.detail, failing[1].detailStart)

\* An input that fails the connection check and the lookback check at the
\* first input of a block and the connection check at the second, after a
\* block that passed, and has no output section; the first is reported.
C7_Witness ==
    /\ Parsed
    /\ str = "{1,1,1,3,2,1,2}([1]0,0,1)([2]-1,3,0)"
    /\ Len(FailingChecks) >= 4
    /\ result.error = "Invalid connection in node [2]."
    /\ StartsWith(result.detail, "Input 1 ")


(***************************************************************************)
(* Properties of the two analyses                                          *)
(***************************************************************************)

\* findActiveNodes has returned.
ActiveComputed == Accepted /\ pc \in {"delays", "done"}

\* calculateNodeDelays has returned.
DelaysComputed == Accepted /\ pc = "done"

Recorded == MapKeys(Nodes)

OutputRefs == {result.outputNodeIndices[k] : k \in 1..Len(result.outputNodeIndices)}

\* The least set of recorded nodes that holds S and every recorded input of
\* its members.
RECURSIVE FeedClosure(_)
FeedClosure(S) ==
    LET more == S \cup {r \in Recorded : \E n \in S : r \in NodeRefs(MapGet(Nodes, n))}
    IN  IF more = S THEN S ELSE FeedClosure(more)

\* C8: findActiveNodes returns exactly the recorded nodes that transitively
\* feed an output: a recorded node is in the set iff it is an output
\* reference or an input reference of a node in the set, and no smaller set
\* has that property.
C8_ActiveIsReachable ==
    ActiveComputed =>
        /\ active = FeedClosure(OutputRefs \cap Recorded)
        /\ \A n \in Recorded :
               n \in active <=>
                   \/ n \in OutputRefs
                   \/ \E m \in active : n \in NodeRefs(MapGet(Nodes, m))

\* An active node whose first input names a grid slot without definition
\* and whose second input names a recorded node, which is traced all the
\* same; a run that reached its end.
C8_Witness ==
    /\ DelaysComputed
    /\ \E m \in active :
           LET ins == MapGet(Nodes, m).inputs
           IN  /\ ~ IsPrimaryRef(ins[1]) /\ ins[1] \notin Recorded
               /\ ins[2] \in Recorded /\ ins[2] \in active

\* C9: the active set is a subset of the recorded node indices, and it is
\* empty iff there is no output or every output names a primary input.
C9_ActiveSubsetAndEmptiness ==
    ActiveComputed =>
        /\ active \subseteq Recorded
        /\ active = {} <=>
               \/ Len(result.outputNodeIndices) = 0
               \/ \A o \in OutputRefs : IsPrimaryRef(o)

\* An accepted input whose outputs all name primary inputs: nodes are
\* recorded and none is active.
C9_Witness ==
    /\ ActiveComputed
    /\ active = {}
    /\ Len(Nodes) = 2
    /\ \A o \in OutputRefs : IsPrimaryRef(o)

SetMax(S) == CHOOSE x \in S : \A y \in S : y <= x

DelayOf(i) == IF HasDelay(delays, Key(i)) THEN delays[Key(i)] ELSE 0

\* The number of node-to-node edges of the longest dependency chain that
\* ends at grid index i (a slot without definition ends a chain).
RECURSIVE LongestChain(_)
LongestChain(i) ==
    IF i \notin Recorded THEN 0
    ELSE SetMax({IF r < Cfg.inputs THEN 0 ELSE LongestChain(r) + 1 :
                    r \in NodeRefs(MapGet(Nodes, i))})

\* C10: the delay of every recorded node n is the maximum over its input
\* references r of (0 if r < inputs, else delay(r) + 1), which is the length
\* of the longest dependency chain ending at n; so
\* delay(n) >= delay(r) + 1 for every recorded input r of n.
C10_DelayIsLongestChain ==
    DelaysComputed =>
        \A i \in 1..Len(Nodes) :
            LET n == Nodes[i]
            IN  /\ HasDelay(delays, Key(n.index))
                /\ delays[Key(n.index)] =
                       SetMax({IF r < Cfg.inputs THEN 0 ELSE DelayOf(r) + 1 :
                                  r \in NodeRefs(n)})
                /\ delays[Key(n.index)] = LongestChain(n.index)
                /\ \A r \in NodeRefs(n) \cap Recorded :
                       delays[Key(n.index)] >= delays[Key(r)] + 1

\* A node of delay 2 whose inputs contribute different amounts (a primary
\* input and a node of delay 1).
C10_Witness ==
    /\ DelaysComputed
    /\ \E i \in 1..Len(Nodes) :
           /\ delays[Key(Nodes[i].index)] = 2
           /\ \E r \in NodeRefs(Nodes[i]) : IsPrimaryRef(r)
           /\ \E r \in NodeRefs(Nodes[i]) : r \in Recorded /\ delays[Key(r)] = 1

(***************************************************************************)
(* Properties of the delay map and of the hook's result                    *)
(***************************************************************************)

\* The hook has returned.
Returned == ~ IsNull(ret)

\* The hook has returned a parsed circuit.
Succeeded == Returned /\ IsNull(ret.parseError)

Outputs == result.outputNodeIndices

\* The key the statement gives to output position p (0-based).
OutputName(p) == "output-" \o ToString(p)

\* C11: in the delay map calculateNodeDelays returns, every primary input
\* 0..inputs-1 has delay 0, and for every output position i with source s,
\* delay("output-i") is delay(s) + 1 when s is a recorded node and 1 when s
\* is a primary input.
C11_InputAndOutputDelays ==
    DelaysComputed =>
        /\ \A i \in 0..(Cfg.inputs - 1) :
               HasDelay(delays, Key(i)) /\ delays[Key(i)] = 0
        /\ \A p \in 1..Len(Outputs) :
               LET s == Outputs[p]
               IN  /\ HasDelay(delays, OutputName(p - 1))
                   /\ s \in Recorded =>
                          /\ HasDelay(delays, Key(s))
                          /\ delays[OutputName(p - 1)] = delays[Key(s)] + 1
                   /\ IsPrimaryRef(s) => delays[OutputName(p - 1)] = 1

\* A finished run with one output on a primary input and one on a node
\* whose own delay is 1.
C11_Witness ==
    /\ DelaysComputed
    /\ Len(Outputs) = 2
    /\ IsPrimaryRef(Outputs[1])
    /\ Outputs[2] \in Recorded
    /\ delays[Key(Outputs[2])] = 1
    /\ delays[OutputName(0)] = 1
    /\ delays[OutputName(1)] = 2

\* C12: after a successful parse the keys of the delay map are exactly the
\* primary inputs 0..inputs-1, every recorded node index (active or not)
\* and "output-i" for every output position i; every value is a natural
\* number; this map is the nodeDelays the hook returns.
C12_DelayKeys ==
    DelaysComputed =>
        /\ DOMAIN delays = {Key(i) : i \in 0..(Cfg.inputs - 1)}
                             \cup {Key(n) : n \in Recorded}
                             \cup {OutputName(p - 1) : p \in 1..Len(Outputs)}
        /\ \A k \in DOMAIN delays : delays[k] \in Nat
        /\ Succeeded
        /\ ret.parsedData.nodeDelays = delays

\* A finished run with two outputs, a recorded node that is not active and
\* at least one primary input.
C12_Witness ==
    /\ DelaysComputed
    /\ Len(Outputs) = 2
    /\ Cfg.inputs >= 1
    /\ Recorded \ active # {}
    /\ active # {}

SimpleValidExample == "{2,1,1,2,2,2,4}([2]0,1,0)([3]0,1,1)(3)"

\* The run on the tester's simple valid example has ended.
SimpleValidDone == cgpString = StringValue(SimpleValidExample) /\ pc = "done"

SimpleValidParse ==
    /\ Succeeded
    /\ result.config = [inputs |-> 2, outputs |-> 1, rows |-> 1, cols |-> 2,
                        arity |-> 2, lback |-> 2, funcSetSize |-> 4, startIndex |-> 2]
    /\ Len(Nodes) = 2
    /\ Recorded = {2, 3}
    /\ MapGet(Nodes, 2).funcId = 0 /\ MapGet(Nodes, 2).inputs = <<0, 1>>
    /\ MapGet(Nodes, 3).funcId = 1 /\ MapGet(Nodes, 3).inputs = <<0, 1>>
    /\ Outputs = <<3>>
    /\ ret.activeNodes = {3}

\* C13 (as the code behaves): the simple valid example succeeds with the
\* config, nodes, outputs and active set {3} of the statement, and its
\* delay map has an entry for every recorded node, node 2 included:
\* {0:0, 1:0, 2:0, 3:0, "output-0":1}.
C13_SimpleValidExample ==
    SimpleValidDone =>
        /\ SimpleValidParse
        /\ DOMAIN ret.parsedData.nodeDelays = {"0", "1", "2", "3", "output-0"}
        /\ \A k \in {"0", "1", "2", "3"} : ret.parsedData.nodeDelays[k] = 0
        /\ ret.parsedData.nodeDelays["output-0"] = 1

\* C13 as stated: the delay map of the simple valid example is exactly
\* {0:0, 1:0, 3:0, "output-0":1}.
C13_AsStated ==
    SimpleValidDone =>
        /\ SimpleValidParse
        /\ DOMAIN ret.parsedData.nodeDelays = {"0", "1", "3", "output-0"}
        /\ \A k \in {"0", "1", "3"} : ret.parsedData.nodeDelays[k] = 0
        /\ ret.parsedData.nodeDelays["output-0"] = 1

\* The run on the simple valid example has ended with node 2 recorded,
\* inactive and present in the delay map.
C13_Witness ==
    /\ SimpleValidDone
    /\ Succeeded
    /\ 2 \in Recorded \ ret.activeNodes
    /\ HasDelay(ret.parsedData.nodeDelays, "2")

\* The run is at a position from which the code goes on: no loop has run
\* past its end and the frame on top of the stack is that of a recorded node.
CanStep ==
    CASE pc \in {"start", "parse", "active"} -> TRUE
      [] pc = "seed" -> seedPos <= Len(Outputs)
      [] pc = "delays" ->
             \/ stack = <<>>
             \/ /\ MapHas(Nodes, KeyToInt(TopFrame.nodeId))
                /\ Len(TopFrame.inputDelays) <= Len(TopInputs)
      [] OTHER -> FALSE

AllBlank(c) == \A i \in 1..Len(c) : c[i] \in {" ", "\n", "\t"}

\* Position i starts a line of c.
IsLineStart(c, i) == i = 1 \/ (i >= 2 /\ i <= Len(c) + 1 /\ c[i - 1] = "\n")

\* The line that starts at i holds a character that is not whitespace.
NonBlankLineAt(c, i) ==
    \E j \in i..Len(c) :
        /\ c[j] \notin {" ", "\n", "\t"}
        /\ \A k \in i..j : c[k] # "\n"

\* Every non-blank line of c starts with '#'.
OnlyCommentLines(c) ==
    \A i \in 1..Len(c) :
        (IsLineStart(c, i) /\ NonBlankLineAt(c, i)) => c[i] = "#"

RawChars == Chars(cgpString.text)

\* C15: an empty or whitespace-only raw input gives parsedData = null,
\* error "CGP string is empty." and an empty active set; a raw input with
\* a non-blank line, all of whose non-blank lines start with '#', gives the
\* error "No valid CGP string found." with parsedData = null and an empty
\* active set; in both cases parseCGPString is never called.
C15_EmptyAndCommentOnly ==
    (cgpString.type = "string" /\ (AllBlank(RawChars) \/ OnlyCommentLines(RawChars))) =>
        /\ pc \in {"start", "done"}
        /\ IsNull(result)
        /\ str = ""
        /\ Returned =>
               /\ IsNull(ret.parsedData)
               /\ ret.activeNodes = {}
               /\ ret.parseError.error =
                      IF AllBlank(RawChars) THEN "CGP string is empty."
                      ELSE "No valid CGP string found."

\* The hook has returned the no-data-line error for a raw input that has a
\* blank line among its directive and comment lines.
C15_Witness ==
    /\ Returned
    /\ cgpString.type = "string"
    /\ ~ AllBlank(RawChars)
    /\ OnlyCommentLines(RawChars)
    /\ \E i \in 1..Len(RawChars) :
           IsLineStart(RawChars, i) /\ ~ NonBlankLineAt(RawChars, i)
    /\ ret.parseError.error = "No valid CGP string found."

\* The run on the raw input text has returned.
ReturnedOn(text) == cgpString = StringValue(text) /\ Returned

RejectedWith(error) ==
    /\ IsNull(ret.parsedData)
    /\ ~ IsNull(ret.parseError)
    /\ ret.parseError.error = error
    /\ ret.parseError = result

\* C16: the tester's error examples are rejected with the listed errors:
\* no config block, a config of 5 parameters, a function ID >= funcSetSize,
\* no trailing output block, an output count other than config.outputs, an
\* output that is neither a primary input nor a recorded node.
C16_ErrorExamples ==
    /\ ReturnedOn("([2]0,1,0)([3]0,1,1)(3)") =>
           RejectedWith("Missing configuration block.")
    /\ ReturnedOn("{2,1,1,2,2}([2]0,1,0)([3]0,1,1)(3)") =>
           RejectedWith("Invalid configuration: Expected 7 parameters, found 5.")
    /\ ReturnedOn("{2,1,1,2,2,2,3}([2]0,1,5)([3]0,1,1)(3)") =>
           RejectedWith("Invalid function ID in node [2].")
    /\ ReturnedOn("{2,1,1,2,2,2,4}([2]0,1,0)([3]0,1,1)") =>
           RejectedWith("Missing output definition.")
    /\ ReturnedOn("{2,2,1,2,2,2,4}([2]0,1,0)([3]0,1,1)(3)") =>
           RejectedWith("Incorrect number of output nodes.")
    /\ ReturnedOn("{2,1,1,2,2,2,4}([2]0,1,0)([3]0,1,1)(7)") =>
           RejectedWith("Invalid output node reference: 7.")

\* The run on the output-count example has returned its error.
C16_Witness ==
    /\ ReturnedOn("{2,2,1,2,2,2,4}([2]0,1,0)([3]0,1,1)(3)")
    /\ RejectedWith("Incorrect number of output nodes.")

\* The text holds the part somewhere.
Contains(text, part) ==
    \E i \in 1..(Len(text) - Len(part) + 1) : SubSeq(text, i, i + Len(part) - 1) = part

IndexExample == "{2,1,1,2,2,2,4}([4]0,1,0)([5]0,1,1)(5)"

\* The indices of the node blocks of the parsed string, in textual order.
BlockIndices ==
    LET blocks == BlocksFrom(Stripped, 1)
    IN  [k \in 1..Len(blocks) |-> ParseInt(blocks[k].index)]

\* The configuration of the parsed string passes every configuration check.
ConfigPasses == Failing(ConfigChecks(Stripped)) = {}

\* The grid of the parsed string, read from its configuration tokens.
GridFirst == NumberOf(ConfigTokens[1])

GridLast == NumberOf(ConfigTokens[1]) + NumberOf(ConfigTokens[3]) * NumberOf(ConfigTokens[4]) - 1

LbackExample == "{2,1,2,3,2,1,4}([2]0,1,0)([3]0,1,1)([4]2,3,2)([5]2,4,3)(5)"

\* C18: the tester's L-back example (rows = 2, lback = 1, node 5 takes
\* node 4 of its own column) is rejected with the error
\* "L-back constraint violation in node [5].".
C18_LbackExampleRejected ==
    ReturnedOn(LbackExample) => RejectedWith("L-back constraint violation in node [5].")

\* The number of node blocks written in the text: its "[" characters.
BlockCount(c) == Cardinality({i \in 1..Len(c) : c[i] = "["})

\* The numbers of the trailing parenthesised block of the text.
TrailingBlock(c) ==
    LET open == CHOOSE i \in 1..Len(c) :
                    c[i] = "(" /\ \A j \in (i + 1)..Len(c) : c[j] # "("
    IN  Numbers(Split(SubSeq(c, open + 1, Len(c) - 1)))

\* C19: every valid example of the tester and the application's default
\* string is accepted by parseCGPString, with one recorded node per node
\* block of the string and the output list equal to the trailing block.
C19_ValidExamplesAccepted ==
    (cgpString.type = "string"
       /\ cgpString.text \in ValidExamples \cup {DEFAULT_CGP_STRING}
       /\ pc \notin {"start", "parse"}) =>
        /\ Accepted
        /\ str = cgpString.text
        /\ Len(Nodes) = BlockCount(RawChars)
        /\ Cardinality(Recorded) = BlockCount(RawChars)
        /\ Outputs = TrailingBlock(RawChars)

\* The default string has been parsed: 25 nodes, output 27.
C19_Witness ==
    /\ Accepted
    /\ cgpString.text = DEFAULT_CGP_STRING
    /\ Len(Nodes) = 25
    /\ Outputs = <<27>>

\* A token the statement calls not a number: empty, or not numeric.
BadToken(tok) == tok = <<>> \/ IsNaNToken(tok)

\* C20: a string with a node block whose content has a token that is not
\* a number (a non-digit token or an empty token), or whose config block
\* has such a token, is rejected.
C20_NonNumericRejected ==
    Accepted =>
        /\ \A k \in 1..Len(ConfigTokens) : ~ BadToken(ConfigTokens[k])
        /\ LET blocks == BlocksFrom(Stripped, 1)
           IN  \A b \in 1..Len(blocks) :
                   LET tokens == Split(blocks[b].content)
                   IN  \A k \in 1..Len(tokens) : ~ BadToken(tokens[k])

(***************************************************************************)
(* Relations between runs: block order, directive lines, worklist order    *)
(***************************************************************************)

\* The position of the "(" that opens the node block matched as m.
BlockStart(m) == m.last - (Len(m.index) + Len(m.content) + 3)

\* gaps[1] blks[1] gaps[2] ... blks[n] gaps[n+1]
RECURSIVE Interleave(_, _)
Interleave(gaps, blks) ==
    IF blks = <<>> THEN Head(gaps)
    ELSE Head(gaps) \o Head(blks) \o Interleave(Tail(gaps), Tail(blks))

\* The stripped string s with its node blocks in the given order; the text
\* around the blocks stays where it is.
Permuted(s, blocks, order) ==
    LET n    == Len(blocks)
        gaps == [k \in 1..(n + 1) |->
                    SubSeq(s,
                           IF k = 1 THEN 1 ELSE blocks[k - 1].last + 1,
                           IF k = n + 1 THEN Len(s) ELSE BlockStart(blocks[k]) - 1)]
        blks == [k \in 1..n |-> SubSeq(s, BlockStart(blocks[order[k]]),
                                       blocks[order[k]].last)]
    IN  Interleave(gaps, blks)

\* The reverse order of n blocks and their rotation by one.  Repeated, the
\* two give every order of up to three blocks, and the generated inputs
\* hold every sequence of their blocks.
BlockOrders(n) == {[k \in 1..n |-> n + 1 - k], [k \in 1..n |-> (k % n) + 1]}

\* Every order of n entries.
Orders(n) == {f \in [1..n -> 1..n] : \A i, j \in 1..n : f[i] = f[j] => i = j}

Entries(m) == {m[i] : i \in 1..Len(m)}

\* C21: for the reversal and the rotation of the node blocks of the parsed
\* string, parseCGPString accepts the reordered string exactly when it
\* accepts the string, and when it does the entries of the node map, the
\* output list, the active-node set and the delay map are those of the
\* string.
C21_BlockOrderIrrelevant ==
    (pc = "done" /\ ~ IsNull(result)) =>
        LET s      == Stripped
            blocks == BlocksFrom(s, 1)
        IN  \A order \in BlockOrders(Len(blocks)) :
                LET p == parseCGPString(Text(Permuted(s, blocks, order)))
                IN  /\ IsError(p) <=> IsError(result)
                    /\ ~ IsError(p) =>
                         /\ Entries(p.nodeDefinitions) = Entries(Nodes)
                         /\ p.outputNodeIndices = Outputs
                         /\ findActiveNodes(p.config, p.nodeDefinitions,
                                            p.outputNodeIndices) = active
                         /\ calculateNodeDelays(p) = ret.parsedData.nodeDelays

\* An accepted string whose blocks are written in descending index order,
\* the later-written node feeding the earlier-written one, both active.
C21_Witness ==
    /\ DelaysComputed
    /\ Len(BlockIndices) = 2
    /\ BlockIndices[1] > BlockIndices[2]
    /\ BlockIndices[2] \in NodeRefs(MapGet(Nodes, BlockIndices[1]))
    /\ active = {BlockIndices[1], BlockIndices[2]}

\* The first position of c that starts a non-blank line whose first
\* character is not '#'; 0 when there is none.
DataLineStart(c) ==
    LET starts == {i \in 1..Len(c) :
                      IsLineStart(c, i) /\ c[i] # "#" /\ NonBlankLineAt(c, i)}
    IN  IF starts = {} THEN 0 ELSE CHOOSE i \in starts : \A j \in starts : i <= j

\* The last position of the line that starts at i.
LineEnd(c, i) ==
    LET k == IndexOfFrom(c, "\n", i) IN IF k = 0 THEN Len(c) ELSE k - 1

\* The circuit of a successful return: everything but the names.
Circuit(r) ==
    [config            |-> r.parsedData.config,
     nodeDefinitions   |-> r.parsedData.nodeDefinitions,
     outputNodeIndices |-> r.parsedData.outputNodeIndices,
     activeNodes       |-> r.activeNodes,
     nodeDelays        |-> r.parsedData.nodeDelays]

\* C22: for a raw input with a data line L, the hook succeeds on the raw
\* input exactly when it succeeds on L alone, and then config,
\* nodeDefinitions, outputNodeIndices, activeNodes and nodeDelays of the two
\* returns are equal.
C22_DirectivesDoNotTouchCircuit ==
    (pc = "done" /\ cgpString.type = "string") =>
        LET c     == RawChars
            first == DataLineStart(c)
        IN  first # 0 =>
                LET alone == useCgpParser(StringValue(Text(SubSeq(c, first, LineEnd(c, first)))))
                IN  /\ IsNull(ret.parseError) <=> IsNull(alone.parseError)
                    /\ IsNull(ret.parseError) => Circuit(ret) = Circuit(alone)

\* A successful return for a raw input with a #%i line of three names for a
\* circuit of two inputs and no #%o line.
C22_Witness ==
    /\ ReturnedOn("#%i i2,i1,i0\n# note\n{2,1,1,2,2,2,4}([2]0,1,0)([3]0,1,1)(3)")
    /\ Succeeded
    /\ ret.parsedData.inputNames = <<"i2", "i1">>
    /\ ret.parsedData.outputNames = <<"Output 0">>
    /\ ret.activeNodes = {3}

\* C23: the string handed to parseCGPString is the first non-blank line of
\* the raw input that does not start with '#', and the return of the hook
\* is the return for the raw input cut off after that line: the lines after
\* it give neither names nor circuit content.
C23_ScanStopsAtDataLine ==
    (pc # "start" /\ cgpString.type = "string") =>
        LET c     == RawChars
            first == DataLineStart(c)
        IN  first # 0 =>
                /\ pc # "parse" => ~ IsNull(result)
                /\ str = Text(SubSeq(c, first, LineEnd(c, first)))
                /\ pc = "done" =>
                       ret = useCgpParser(StringValue(Text(SubSeq(c, 1, LineEnd(c, first)))))

\* A successful return for a raw input whose data line is followed by a
\* #%i line: the input name is the default one.
C23_Witness ==
    /\ ReturnedOn("#%o y\n{1,2,1,3,2,2,2}([1]0,0,0)([2]1,0,1)(2,0)\n#%i z")
    /\ Succeeded
    /\ str = "{1,2,1,3,2,2,2}([1]0,0,0)([2]1,0,1)(2,0)"
    /\ ret.parsedData.inputNames = <<"Input 0">>
    /\ ret.parsedData.outputNames = <<"y", "Output 1">>

\* The names written on the lines of c that start with the prefix, from the
\* line that starts at i up to position stop, in the order of the text: the
\* pieces between the commas of what follows the first blank of the line.
RECURSIVE WrittenNames(_, _, _, _)
WrittenNames(c, i, stop, prefix) ==
    IF i >= stop THEN <<>>
    ELSE LET e      == LineEnd(c, i)
             line   == SubSeq(c, i, e)
             blank  == IndexOfFrom(line, " ", 1)
             pieces == Split(Trim(SubSeq(line, blank + 1, Len(line))))
         IN  (IF StartsWith(line, prefix)
              THEN [k \in 1..Len(pieces) |-> Text(Trim(pieces[k]))]
              ELSE <<>>)
             \o WrittenNames(c, e + 2, stop, prefix)

Reconciled(names, supplied, count, label) ==
    /\ Len(names) = count
    /\ \A k \in 1..count :
           names[k] = IF k <= Len(supplied) THEN supplied[k]
                      ELSE label \o ToString(k - 1)

\* C25: on a successful return inputNames has config.inputs entries and
\* outputNames has config.outputs entries; position i holds the i-th name
\* supplied by the directive lines when there is one and "Input i" /
\* "Output i" otherwise; names beyond the count are dropped.
C25_NamesReconciled ==
    (Succeeded /\ cgpString.type = "string") =>
        LET c     == RawChars
            first == DataLineStart(c)
        IN  /\ Reconciled(ret.parsedData.inputNames,
                          WrittenNames(c, 1, first, Chars("#%i")),
                          ret.parsedData.config.inputs, "Input ")
            /\ Reconciled(ret.parsedData.outputNames,
                          WrittenNames(c, 1, first, Chars("#%o")),
                          ret.parsedData.config.outputs, "Output ")

\* A successful return with three input names supplied for one input and
\* one output name supplied for two outputs.
C25_Witness ==
    /\ ReturnedOn("#%i i2,i1,i0\n#%o y\n{1,2,1,3,2,2,2}([1]0,0,0)([2]1,0,1)(2,0)")
    /\ Succeeded
    /\ ret.parsedData.inputNames = <<"i2">>
    /\ ret.parsedData.outputNames = <<"y", "Output 1">>

(***************************************************************************)
(* The course of the two analyses                                          *)
(***************************************************************************)

\* The position of a stage in the run of the hook.
Rank(p) ==
    CASE p = "start"  -> 0
      [] p = "parse"  -> 1
      [] p = "seed"   -> 2
      [] p = "active" -> 3
      [] p = "delays" -> 4
      [] p = "done"   -> 5

\* The nodes on the call stack of getNodeDelay, outermost call first.
StackNodes == [k \in 1..Len(stack) |-> KeyToInt(stack[k].nodeId)]

\* The inputs the calls on the stack have still to map.
RECURSIVE InputsLeft(_)
InputsLeft(frames) ==
    IF frames = <<>> THEN 0
    ELSE Len(MapGet(Nodes, KeyToInt(Head(frames).nodeId)).inputs)
             - Len(Head(frames).inputDelays)
         + InputsLeft(Tail(frames))

\* The recorded nodes that have neither a delay nor a call in progress.
Untouched ==
    {n \in Recorded : Key(n) \notin DOMAIN delays
                      /\ \A k \in 1..Len(stack) : StackNodes[k] # n}

\* A natural number that bounds the steps a stage has left.
Variant ==
    CASE pc = "seed"   -> Len(Outputs) - seedPos
      [] pc = "active" -> 2 * Cardinality((Recorded \cup OutputRefs) \ visited)
                              + Len(toProcess)
      [] pc = "delays" -> Len(pending) + (Cfg.arity + 2) * Cardinality(Untouched)
                              + InputsLeft(stack) + Len(stack)
      [] OTHER         -> 0

Range(q) == {q[k] : k \in 1..Len(q)}

NoDuplicates(q) == \A i, j \in 1..Len(q) : q[i] = q[j] => i = j

\* A step of findActiveNodes.
InFindActiveNodes == pc \in {"seed", "active"}

\* The step is an iteration of the while loop: it pops the last entry.
Pops == pc = "active" /\ pc' = "active"

\* C27: during findActiveNodes the worklist never holds an index twice and
\* holds only indices in visited; a step pushes only indices that were not
\* in visited and puts them in visited; visited never loses an index; the
\* index a step pops is neither on the worklist afterwards nor was it
\* popped before (it is not yet in active).
C27_PushedAndPoppedOnce ==
    /\ [](InFindActiveNodes => NoDuplicates(toProcess) /\ Range(toProcess) \subseteq visited)
    /\ [][InFindActiveNodes =>
            LET kept   == IF Pops THEN SubSeq(toProcess, 1, Len(toProcess) - 1)
                          ELSE toProcess
                pushed == SubSeq(toProcess', Len(kept) + 1, Len(toProcess'))
            IN  /\ Len(toProcess') >= Len(kept)
                /\ SubSeq(toProcess', 1, Len(kept)) = kept
                /\ NoDuplicates(pushed)
                /\ Range(pushed) \cap visited = {}
                /\ visited' = visited \cup Range(pushed)
                /\ Pops => LET currentIndex == toProcess[Len(toProcess)]
                           IN  /\ currentIndex \notin active
                               /\ currentIndex \notin Range(toProcess')
                               /\ currentIndex \in visited']_vars

\* The worklist loop has popped node 2, both of whose inputs are node 1,
\* after both outputs named node 2: node 1 is on the worklist once.
C27_Witness ==
    /\ cgpString.text = "{1,2,1,3,2,2,2}([1]0,0,0)([2]1,1,0)(2,2)"
    /\ pc = "active"
    /\ active = {2}
    /\ toProcess = <<1>>
    /\ visited = {1, 2}

\* The input the innermost call of getNodeDelay maps next.
NextInput == TopInputs[Len(TopFrame.inputDelays) + 1]

MapsNext == stack # <<>> /\ Len(TopFrame.inputDelays) < Len(TopInputs)

\* C28: during calculateNodeDelays an entry of the delay map, once set,
\* keeps its value; no call of getNodeDelay is in progress for a node that
\* has an entry, so an entry is written once; a request for a node that has
\* an entry opens no call and yields the stored value; the entries of the
\* primary inputs are 0 throughout.
C28_DelayWrittenOnce ==
    /\ [](pc = "delays" =>
            /\ \A k \in 1..Len(stack) : stack[k].nodeId \notin DOMAIN delays
            /\ NoDuplicates(StackNodes)
            /\ \A i \in 0..(Cfg.inputs - 1) :
                   Key(i) \in DOMAIN delays /\ delays[Key(i)] = 0)
    /\ [][pc = "delays" =>
            /\ \A k \in DOMAIN delays : k \in DOMAIN delays' /\ delays'[k] = delays[k]
            /\ (stack = <<>> /\ pending # <<>> /\ Key(Head(pending)) \in DOMAIN delays)
                   => stack' = <<>>
            /\ (MapsNext /\ Key(NextInput) \in DOMAIN delays) =>
                   /\ Len(stack') = Len(stack)
                   /\ stack'[Len(stack)].inputDelays =
                          Append(TopFrame.inputDelays,
                                 IF NextInput < Cfg.inputs THEN 0
                                 ELSE delays[Key(NextInput)] + 1)
            /\ pc' = "delays" =>
                   DOMAIN delays' \ DOMAIN delays \subseteq
                       (IF stack # <<>> /\ Len(stack') < Len(stack)
                        THEN {TopFrame.nodeId} ELSE {})]_vars

\* The call for a node is about to map an input that is a node with a stored
\* delay.
C28_Witness ==
    /\ pc = "delays"
    /\ MapsNext
    /\ NextInput >= Cfg.inputs
    /\ Key(NextInput) \in DOMAIN delays

\* The sequence q read in the given order.
Reordered(q, order) == [k \in 1..Len(q) |-> q[order[k]]]

\* The positions of a worklist of length n that a removal policy may take.
Picks(policy, n) ==
    CASE policy = "last"  -> {n}
      [] policy = "first" -> {1}
      [] policy = "any"   -> 1..n

\* The orders in which a listing policy may read a list of n entries.
Listings(policy, n) ==
    CASE policy = "written"  -> {[k \in 1..n |-> k]}
      [] policy = "reversed" -> {[k \in 1..n |-> n + 1 - k]}
      [] policy = "any"      -> Orders(n)

\* Every active set the while loop of findActiveNodes can end with when each
\* iteration removes an entry the removal policy allows and reads the
\* node's inputs in an order the listing policy allows; the tests and the
\* marking are those of the loop.
RECURSIVE ActiveSets(_, _, _, _, _, _)
ActiveSets(work, seen, act, parsed, removal, listing) ==
    IF work = <<>> THEN {act}
    ELSE UNION {
           LET currentIndex == work[k]
               rest    == SubSeq(work, 1, k - 1) \o SubSeq(work, k + 1, Len(work))
               defined == MapHas(parsed.nodeDefinitions, currentIndex)
               inputs  == IF defined
                          THEN MapGet(parsed.nodeDefinitions, currentIndex).inputs
                          ELSE <<>>
               found   == IF IsCircuitNode(currentIndex, parsed.config) /\ defined
                          THEN act \cup {currentIndex} ELSE act
           IN  UNION {
                 LET traced == TraceInputs(Reordered(inputs, order), 1, rest, seen, parsed)
                 IN  ActiveSets(traced.toProcess, traced.visited, found, parsed,
                                removal, listing)
                 : order \in Listings(listing, Len(inputs))}
           : k \in Picks(removal, Len(work))}

\* The same with the outputs listed in an order the listing policy allows.
ActiveSetsOf(parsed, removal, listing) ==
    UNION {
      LET seeded == SeedOutputs(Reordered(parsed.outputNodeIndices, order), 1,
                                <<>>, {}, parsed.config)
      IN  ActiveSets(seeded.toProcess, seeded.visited, {}, parsed, removal, listing)
      : order \in Listings(listing, Len(parsed.outputNodeIndices))}

\* C29: the active set findActiveNodes returns is the only set the loop can
\* end with, whichever pending entry each iteration removes and in whichever
\* order the outputs and the inputs of a node are listed: every choice at
\* every iteration for circuits of at most MaxBlocks + 1 nodes; last-in or
\* first-in removal with the written or the reversed listing for the larger
\* ones.
C29_ActiveSetOrderIndependent ==
    DelaysComputed =>
        IF Len(Nodes) <= MaxBlocks + 1
        THEN ActiveSetsOf(result, "any", "any") = {active}
        ELSE \A removal \in {"last", "first"}, listing \in {"written", "reversed"} :
                 ActiveSetsOf(result, removal, listing) = {active}

\* The active set of a circuit whose output node has two nodes as inputs,
\* so that the worklist holds two entries at once.
C29_Witness ==
    /\ ReturnedOn("{2,1,1,3,2,3,3}([2]0,1,0)([3]0,1,1)([4]2,3,2)(4)")
    /\ Succeeded
    /\ active = {2, 3, 4}
    /\ Cardinality(ActiveSetsOf(result, "any", "any")) = 1

(***************************************************************************)
(* References within a column                                              *)
(***************************************************************************)

\* The tester's "Multiple Outputs Example": rows = 2, node 6 takes node 5
\* of its own column.
MultipleOutputsExample ==
    "{3,2,2,2,2,2,4}([3]0,1,0)([4]0,2,1)([5]3,4,2)([6]3,5,3)(5,6)"

====
